---- MODULE Spec2Model ----
(***************************************************************************)
(* Cloud-storage connectors of Secure-Media-Processor: the shared          *)
(* CloudConnector helpers (base_connector.py), the Azure Blob connector    *)
(* (azure_blob_connector.py) and the OneDrive connector                    *)
(* (onedrive_connector.py).                                                *)
(*                                                                         *)
(* One behaviour follows one connector object (kind = "azure" or           *)
(* "onedrive") through any sequence of calls of its public methods.  Each  *)
(* action is one whole method call; `last' records what the call was given *)
(* and what the caller observed: the returned value or the exception that  *)
(* left the method, and the trace of rate-limiter consultations and        *)
(* provider (network) calls the method made.                               *)
(*                                                                         *)
(* Remote paths are Python strings, modelled as sequences of characters    *)
(* over a small alphabet; pathlib is modelled for the POSIX flavour.       *)
(***************************************************************************)
EXTENDS Integers, Sequences, FiniteSets, TLC

\* ---------------------------------------------------------------- bounds
\* longest remote path string given to an operation
MaxLen == 3
\* most blobs/items the remote store holds at once
MaxBlobs == 1

\* ------------------------------------------------------------ characters
NUL == "NUL"
CR == "CR"
LF == "LF"
Chars == {"a", "/", "\\", ".", NUL, CR, LF}
Strings == UNION {[1..n -> Chars] : n \in 0..MaxLen}

\* A value handed in as remote_path: a str, or an object of another type.
PathArgs == {[isstr |-> TRUE, s |-> s] : s \in Strings} \cup {[isstr |-> FALSE, s |-> <<>>]}
Str(s) == [isstr |-> TRUE, s |-> s]

\* ------------------------------------------------- pathlib (POSIX flavour)
\* str.split('/')
RECURSIVE SplitSlash(_)
SplitSlash(s) ==
    IF \A i \in 1..Len(s) : s[i] # "/"
    THEN <<s>>
    ELSE LET i == CHOOSE k \in 1..Len(s) : s[k] = "/" /\ \A j \in 1..(k - 1) : s[j] # "/"
         IN <<SubSeq(s, 1, i - 1)>> \o SplitSlash(SubSeq(s, i + 1, Len(s)))

\* posixpath.splitroot: '' for a relative path, '//' for exactly two leading
\* slashes, '/' otherwise
PathRoot(s) ==
    IF Len(s) = 0 \/ s[1] # "/" THEN <<>>
    ELSE IF Len(s) >= 2 /\ s[2] = "/" /\ ~(Len(s) >= 3 /\ s[3] = "/") THEN <<"/", "/">>
    ELSE <<"/">>

\* the relative components pathlib keeps: empty and '.' components are dropped
PathTail(s) == SelectSeq(SplitSlash(s), LAMBDA x : x # <<>> /\ x # <<".">>)

\* Path(s).parts
PathParts(s) == (IF PathRoot(s) = <<>> THEN <<>> ELSE <<PathRoot(s)>>) \o PathTail(s)

\* '/'.join(components)
RECURSIVE JoinSlash(_)
JoinSlash(segs) ==
    IF Len(segs) = 0 THEN <<>>
    ELSE IF Len(segs) = 1 THEN segs[1]
    ELSE segs[1] \o <<"/">> \o JoinSlash(Tail(segs))

\* Path(s).as_posix()
AsPosix(s) ==
    IF PathParts(s) = <<>> THEN <<".">>
    ELSE PathRoot(s) \o JoinSlash(PathTail(s))

StartsWith(s, c) == Len(s) >= 1 /\ s[1] = c

\* -------------------------------------- CloudConnector._validate_remote_path
\* the characters the validator refuses anywhere in the path
DangerousChars == {NUL, LF, CR}

\* The validator with the absolute-path test looking for '/' only.
ValidateRemotePathSlashOnly(p) ==
    IF (p.isstr /\ p.s = <<>>) \/ ~p.isstr THEN "Remote path must be a non-empty string"
    ELSE IF StartsWith(AsPosix(p.s), "/") THEN "Absolute paths not allowed"
    ELSE IF \E i \in 1..Len(PathParts(p.s)) : PathParts(p.s)[i] = <<".", ".">>
         THEN "Path traversal detected"
    ELSE IF \E i \in 1..Len(p.s) : p.s[i] \in DangerousChars
         THEN "Invalid characters in path"
    ELSE "ok"

\* The ValueError the validator raises, or "ok" when it returns normally.
ValidateRemotePath(p) ==
    IF (p.isstr /\ p.s = <<>>) \/ ~p.isstr THEN "Remote path must be a non-empty string"
    ELSE IF StartsWith(AsPosix(p.s), "/") \/ StartsWith(AsPosix(p.s), "\\")
         THEN "Absolute paths not allowed"
    ELSE IF \E i \in 1..Len(PathParts(p.s)) : PathParts(p.s)[i] = <<".", ".">>
         THEN "Path traversal detected"
    ELSE IF \E i \in 1..Len(p.s) : p.s[i] \in DangerousChars
         THEN "Invalid characters in path"
    ELSE "ok"

\* lstrip("/")
RECURSIVE LStripSlash(_)
LStripSlash(s) == IF StartsWith(s, "/") THEN LStripSlash(Tail(s)) ELSE s

\* ------------------------------------------------------------ file contents
\* contents of files
Contents == {"c1", "c2", "c3"}
\* hashlib.sha256 over the whole file (read in 4096-byte blocks): distinct
\* contents have distinct digests
Sha256(c) == CASE c = "c1" -> "h1" [] c = "c2" -> "h2" [] c = "c3" -> "h3" [] OTHER -> "h0"
\* local files: "l1" exists, "l0" does not (until a download creates it)
LocalPaths == {"l0", "l1"}

\* ---------------------------------------------------------- result values
\* What the caller of a public method observes: a dict, a list, a bool, or an
\* exception leaving the method (type = "raise", error = the exception type).
RetDict(ok, err, warn, cv, sum) ==
    [type |-> "dict", success |-> ok, error |-> err, warning |-> warn,
     checksum_verified |-> cv, checksum |-> sum, items |-> <<>>]
Fail(err) == RetDict(FALSE, err, "", "absent", "absent")
Okay == RetDict(TRUE, "", "", "absent", "absent")
OkayWarn(w) == RetDict(TRUE, "", w, "absent", "absent")
OkaySum(sum) == RetDict(TRUE, "", "", "absent", sum)
RetBool(b) == [RetDict(b, "", "", "absent", "absent") EXCEPT !.type = "bool"]
RetList(xs) == [RetDict(TRUE, "", "", "absent", "absent") EXCEPT !.type = "list", !.items = xs]
Raise(exc) == [RetDict(FALSE, exc, "", "absent", "absent") EXCEPT !.type = "raise"]
NoRet == [RetDict(FALSE, "", "", "absent", "absent") EXCEPT !.type = "none"]

\* ------------------------------------------------------------------- state
VARIABLES
    kind,                \* "azure" | "onedrive": the class of the connector object
    hook,                \* whether the object has a _check_rate_limit method
    limiter,             \* whether a rate_limiter was passed to the constructor
    universe,            \* which remote-path values callers pass in this run
    auth,                \* Azure: the auth mode the constructor accepted
    ctor,                \* Azure: the constructor call that made the object
    creds,               \* the credential and target attributes of the object
    connected,           \* CloudConnector._connected
    blob_service_client, \* AzureBlobConnector.blob_service_client
    container_client,    \* AzureBlobConnector.container_client
    session,             \* OneDriveConnector._session
    access_token,        \* OneDriveConnector.access_token
    drive_id,            \* OneDriveConnector.drive_id
    store,               \* the provider's container/drive: a set of blobs
    local,               \* the local file system
    last,                \* the last public call: arguments, observed result, trace
    registry,            \* ConnectorManager.connectors: name -> connector object
    active,              \* ConnectorManager.active_connector_name
    objConnected,        \* _connected of each connector object a manager can hold
    mlast                \* the last call of a manager method and what it did

vars == <<kind, hook, limiter, universe, auth, ctor, creds, connected, blob_service_client,
          container_client, session, access_token, drive_id, store, local, last,
          registry, active, objConnected, mlast>>

config == <<kind, hook, limiter, universe, auth, ctor>>
azureHandles == <<blob_service_client, container_client>>
oneDriveState == <<session, access_token, drive_id>>
manager == <<registry, active, objConnected, mlast>>

\* ------------------------------------------------------------ remote store
Blob(path, content, sum) == [path |-> path, content |-> content, checksum |-> sum]
Exists(st, key) == \E b \in st : b.path = key
Lookup(st, key) == CHOOSE b \in st : b.path = key
Remove(st, key) == {b \in st : b.path # key}
Put(st, b) == Remove(st, b.path) \cup {b}

\* ------------------------------------------------------ the record `last'
\* op and the arguments (path, path2, file, verify); the situation the call
\* found (was_connected, existed: the remote target was there, env_ok: the
\* limiter let the call through and the provider answered without fault);
\* what the caller observed (ret) and what the method did on the way (trace:
\* limiter consultations and provider calls in order, wire: the bytes a
\* download wrote, compared: a checksum comparison was carried out); for a
\* OneDrive upload, which of its requests the provider failed (fault); for
\* connect, disconnect and __del__ of OneDrive, whether the object held a
\* session when called (had_session) and whether the call closed it (closed).
NoFault == [fail |-> 0, how |-> "error"]
\* The metadata argument of upload_file: None, or a dict the caller holds,
\* given by its keys.
NoMetadata == [isdict |-> FALSE, keys |-> {}]
Dict(keys) == [isdict |-> TRUE, keys |-> keys]
MetadataArgs == {NoMetadata, Dict({}), Dict({"k"})}
Call(op, p, p2, file, verify, wasConnected, existed, envOk, ret, trace, wire, compared) ==
    [op |-> op, path |-> p, path2 |-> p2, file |-> file, verify |-> verify,
     was_connected |-> wasConnected, existed |-> existed, env_ok |-> envOk,
     ret |-> ret, trace |-> trace, wire |-> wire, compared |-> compared,
     fault |-> NoFault, had_session |-> FALSE, closed |-> FALSE,
     readable |-> 0, ranges |-> <<>>,
     metadata |-> NoMetadata, metadata_after |-> NoMetadata]
NoPath == Str(<<>>)
\* the result of connect and disconnect
Lifecycle(op, ret, trace) ==
    Call(op, NoPath, NoPath, "l1", FALSE, connected, FALSE, TRUE, ret, trace, "none", FALSE)
\* between two calls: the caller holds no result
NoCall == Call("none", NoPath, NoPath, "l1", FALSE, FALSE, FALSE, TRUE, NoRet, <<>>, "none", FALSE)
Idle == last = NoCall

\* events of a trace
RateCheck == "rate_limiter.check"
IsNet(e) == e # RateCheck

\* ------------------------------------------- CloudConnector._check_rate_limit
\* The connectors call self._check_rate_limit(operation) and catch
\* RuntimeError.  CloudConnector defines no such method and its __init__
\* drops the rate_limiter keyword, so on the classes as written the call
\* raises AttributeError.  With the method present (hook) it consults the
\* configured limiter, which lets the call through or rejects it.
RateLimiterHook(allow) == IF limiter /\ ~allow THEN "RuntimeError" ELSE "ok"
\* self._check_rate_limit(operation) at the call sites
CheckRateLimit(allow) == IF ~hook THEN "AttributeError" ELSE RateLimiterHook(allow)
\* the trace the gate leaves
GateTrace == IF hook /\ limiter THEN <<RateCheck>> ELSE <<>>
RateLimited == "Rate limit exceeded"
\* the limiter decides only when it is consulted
LimiterAnswers == IF hook /\ limiter THEN BOOLEAN ELSE {TRUE}
\* the provider answers only when a gated operation gets to call it
Answers(S) == IF connected /\ hook THEN S ELSE {"ok"}
\* a metadata mapping is passed only to an upload that can get to use it
PassedMetadata == IF connected /\ hook THEN MetadataArgs ELSE {NoMetadata}
\* a transfer can be corrupted only when it takes place
Corruptions == IF connected /\ hook THEN BOOLEAN ELSE {FALSE}

\* ------------------------------------------- ConnectorManager: its state
\* most names a caller uses with one manager
MaxNames == 3
\* connector names ("n1", "n2", ...), by number
Names == 1..MaxNames
\* no name: active_connector_name is None, or connector_name was not given
NoName == 0
\* the order in which a manager walks its names
NameOrder == [i \in 1..MaxNames |-> i]
\* the connector objects callers register: an Azure and a OneDrive connector
Objs == {"az1", "od1"}
KindOf(o) == IF o = "az1" THEN "azure" ELSE "onedrive"
\* what a manager method returns
MRet(type, ok, err) == [type |-> type, success |-> ok, error |-> err]
\* one call of a manager method: its arguments (name: the name, source or
\* connector_name given; obj: the connector given; targets), the value
\* returned (ret, and results: the per-name map), what each connector
\* answered (answers), the connector methods invoked, in order (calls), and
\* the registry and active name the call found (was_registry, was_active);
\* a sync also records what reading from its source gave (source_answer)
MCall(op, name, obj, targets, ret, results, answers, calls) ==
    [op |-> op, name |-> name, obj |-> obj, targets |-> targets, ret |-> ret,
     results |-> results, answers |-> answers, calls |-> calls,
     was_registry |-> registry, was_active |-> active, source_answer |-> "none"]
NoResults == [n \in Names |-> "absent"]
NoAnswers == [n \in Names |-> "none"]
NoMCall ==
    [MCall("none", NoName, "None", <<>>, MRet("none", FALSE, ""), NoResults, NoAnswers, <<>>)
        EXCEPT !.was_registry = [n \in Names |-> "None"], !.was_active = NoName]
MIdle == mlast = NoMCall
Registered == {n \in Names : registry[n] # "None"}
\* ConnectorManager(): an empty registry, no active name
ManagerFresh ==
    /\ registry = [n \in Names |-> "None"]
    /\ active = NoName
    /\ objConnected = [o \in Objs |-> FALSE]
    /\ mlast = NoMCall

\* ----------------------------------------------------------- construction
AuthModes == {"connection_string", "account_key", "sas_token"}
GoodPath == Str(<<"a">>)
\* a handful of remote paths: valid ones, and one of each kind the validator refuses
FewPathArgs == {GoodPath, Str(<<"a", "/", "a">>), Str(<<>>), Str(<<"/", "a">>),
                Str(<<".", ".">>), Str(<<"a", LF>>), [isstr |-> FALSE, s |-> <<>>]}
\* the remote-path values callers pass
args == IF universe = "all" THEN PathArgs ELSE FewPathArgs
InitialStores == {{}, {Blob(<<"a">>, "c1", "none")}}

\* -------------------------------------------- AzureBlobConnector.__init__
\* what a caller passes for an optional string argument
ArgValues == {"None", "", "value"}
\* connection strings: one with AccountName and AccountKey pairs, one with a
\* BlobEndpoint and a SharedAccessSignature and no key
CsWithKey == "AccountName=a;AccountKey=k"
CsWithSas == "BlobEndpoint=e;SharedAccessSignature=s"
ConnStrings == {"None", "", CsWithKey, CsWithSas}
\* Python truthiness of such an argument
Truthy(v) == v \notin {"None", ""}
CtorArgs(cs, an, ak, sas) ==
    [connection_string |-> cs, account_name |-> an, account_key |-> ak, sas_token |-> sas]
AllCtorArgs == {CtorArgs(cs, an, ak, sas) : cs \in ConnStrings, an \in ArgValues,
                                           ak \in ArgValues, sas \in ArgValues}
\* the two checks of the constructor, in order
CtorRaises(a) ==
    \/ ~Truthy(a.connection_string) /\ ~Truthy(a.account_name)
    \/ Truthy(a.account_name) /\ ~(Truthy(a.account_key) \/ Truthy(a.sas_token))
\* the credentials connect() will use
ModeOf(a) ==
    IF Truthy(a.connection_string) THEN "connection_string"
    ELSE IF Truthy(a.account_key) THEN "account_key"
    ELSE "sas_token"
Ctor(a, result) == [args |-> a, result |-> result]
\* the plainest constructor call giving an auth mode
CtorFor(mode) ==
    Ctor(IF mode = "connection_string" THEN CtorArgs(CsWithKey, "None", "None", "None")
         ELSE IF mode = "account_key" THEN CtorArgs("None", "value", "value", "None")
         ELSE IF mode = "sas_token" THEN CtorArgs("None", "value", "None", "value")
         ELSE CtorArgs("None", "None", "None", "None"),
         "constructed")
Constructed == ctor.result = "constructed"
\* the attributes the constructors assign from their arguments
AzureCreds(a) ==
    [connection_string |-> a.connection_string, account_name |-> a.account_name,
     account_key |-> a.account_key, sas_token |-> a.sas_token, container_name |-> "container",
     client_id |-> "None", client_secret |-> "None", tenant_id |-> "None",
     refresh_token |-> "None"]
OneDriveCreds(secret, refresh) ==
    [connection_string |-> "None", account_name |-> "None", account_key |-> "None",
     sas_token |-> "None", container_name |-> "None",
     client_id |-> "client", client_secret |-> secret, tenant_id |-> "common",
     refresh_token |-> refresh]
NoCreds == AzureCreds(CtorArgs("None", "None", "None", "None"))
\* __del__: `if self.x: self.x = None'
Cleared(v) == IF Truthy(v) THEN "None" ELSE v

InitCommon ==
    /\ kind \in {"azure", "onedrive"}
    /\ limiter \in BOOLEAN
    /\ auth \in (IF kind = "azure" THEN AuthModes ELSE {"oauth"})
    /\ ctor = CtorFor(auth)
    /\ creds = IF kind = "azure" THEN AzureCreds(ctor.args) ELSE OneDriveCreds("value", "None")
    /\ connected = FALSE
    /\ blob_service_client = "None"
    /\ container_client = "None"
    /\ session = "None"
    /\ access_token \in (IF kind = "onedrive" THEN {"None", "token"} ELSE {"None"})
    /\ drive_id = "None"
    /\ local = [l \in LocalPaths |-> IF l = "l1" THEN "c1" ELSE "absent"]
    /\ last = NoCall
    /\ ManagerFresh

\* The classes as written: no _check_rate_limit.
Init ==
    /\ InitCommon
    /\ hook = FALSE
    /\ universe = "all"
    /\ store \in InitialStores

\* The classes completed with _check_rate_limit; callers pass a handful of paths.
InitHook ==
    /\ InitCommon
    /\ hook = TRUE
    /\ universe = "few"
    /\ store \in InitialStores

\* The constructor validates the credentials given and sets both client
\* attributes to None; it talks to nobody.
AzureInit ==
    /\ Idle
    /\ ctor.result = "pending"
    /\ IF CtorRaises(ctor.args)
       THEN /\ ctor' = Ctor(ctor.args, "ValueError")
            /\ last' = Lifecycle("__init__", Raise("ValueError"), <<>>)
            /\ UNCHANGED <<auth, creds>>
       ELSE /\ ctor' = Ctor(ctor.args, "constructed")
            /\ last' = Lifecycle("__init__", NoRet, <<>>)
            /\ auth' = ModeOf(ctor.args)
            /\ creds' = AzureCreds(ctor.args)
    /\ blob_service_client' = "None"
    /\ container_client' = "None"
    /\ UNCHANGED <<kind, hook, limiter, universe, manager, connected, oneDriveState,
                   store, local>>

\* ------------------------------------------------ AzureBlobConnector.connect
AzureConnectOutcomes == {"exists", "created", "ClientAuthenticationError",
                         "AzureError", "AzureError in create_container"}
AzureConnectTrace(out) ==
    IF out \in {"created", "AzureError in create_container"}
    THEN <<"container_client.exists", "container_client.create_container">>
    ELSE <<"container_client.exists">>
AzureConnectOk(out) == out \in {"exists", "created"}

\* what dereferencing a client attribute raises when it is None
NoneDeref == "AttributeError"
\* none of the three credential branches of connect() applies
NoCredential ==
    /\ ~Truthy(creds.connection_string)
    /\ ~Truthy(creds.account_key)
    /\ ~Truthy(creds.sas_token)
AzureConnect ==
    /\ Idle
    /\ kind = "azure"
    /\ IF NoCredential /\ blob_service_client = "None"
       THEN /\ last' = Lifecycle("connect", Raise(NoneDeref), <<>>)
            /\ UNCHANGED <<connected, azureHandles>>
       ELSE \E out \in AzureConnectOutcomes :
            /\ blob_service_client' = "client"
            /\ container_client' = "client"
            /\ connected' = AzureConnectOk(out)
            /\ last' = Lifecycle("connect", RetBool(AzureConnectOk(out)), AzureConnectTrace(out))
    /\ UNCHANGED <<config, creds, manager, oneDriveState, store, local>>

\* ------------------------------------------------ AzureBlobConnector.__del__
AzureDel ==
    /\ Idle
    /\ kind = "azure"
    /\ creds' = [creds EXCEPT !.connection_string = Cleared(@),
                              !.account_key = Cleared(@),
                              !.sas_token = Cleared(@)]
    /\ blob_service_client' = "None"
    /\ container_client' = "None"
    /\ last' = Lifecycle("__del__", NoRet, <<>>)
    /\ UNCHANGED <<config, manager, connected, oneDriveState, store, local>>

\* --------------------------------------------- AzureBlobConnector.disconnect
AzureDisconnect ==
    /\ Idle
    /\ kind = "azure"
    /\ blob_service_client' = "None"
    /\ container_client' = "None"
    /\ connected' = FALSE
    /\ last' = Lifecycle("disconnect", RetBool(TRUE), <<>>)
    /\ UNCHANGED <<config, creds, manager, oneDriveState, store, local>>

\* ------------------------------------------------- OneDriveConnector.connect
\* auth: the outcome of _authenticate when no token is held; http: the
\* answer to GET /me/drive ("exception" = requests raised).
OneDriveConnectRet(auth_ok, http) ==
    IF access_token = "None" /\ ~auth_ok THEN FALSE
    ELSE http = "200"
OneDriveConnectConnected(auth_ok, http) ==
    IF access_token = "None" /\ ~auth_ok THEN connected
    ELSE IF http = "exception" THEN FALSE
    ELSE IF http = "200" THEN TRUE
    ELSE connected
OneDriveConnectTrace(auth_ok, http) ==
    (IF access_token = "None" THEN <<"msal.acquire_token">> ELSE <<>>)
    \o (IF access_token = "None" /\ ~auth_ok THEN <<>> ELSE <<"GET /me/drive">>)

\* result.get("refresh_token") of a successful _authenticate: the client
\* credential flow (client_secret given) issues none, the device flow may
RefreshAnswers == IF Truthy(creds.client_secret) THEN {"None"} ELSE {"None", "value"}
OneDriveConnect ==
    /\ Idle
    /\ kind = "onedrive"
    /\ \E auth_ok \in BOOLEAN, http \in {"200", "401", "exception"}, refresh \in RefreshAnswers :
        /\ session' = "session"
        /\ access_token' = IF access_token = "None" /\ auth_ok THEN "token" ELSE access_token
        /\ creds' = IF access_token = "None" /\ auth_ok
                    THEN [creds EXCEPT !.refresh_token = refresh] ELSE creds
        /\ drive_id' = IF OneDriveConnectRet(auth_ok, http) /\ drive_id = "None"
                       THEN "drive" ELSE drive_id
        /\ connected' = OneDriveConnectConnected(auth_ok, http)
        /\ last' = [Lifecycle("connect", RetBool(OneDriveConnectRet(auth_ok, http)),
                              OneDriveConnectTrace(auth_ok, http))
                        EXCEPT !.had_session = session # "None"]
    /\ UNCHANGED <<config, manager, azureHandles, store, local>>

\* ---------------------------------------------- OneDriveConnector.disconnect
\* disconnect closing the session but keeping the reference to it
OneDriveDisconnectKeepSession ==
    /\ Idle
    /\ kind = "onedrive"
    /\ session' = session
    /\ connected' = FALSE
    /\ last' = Lifecycle("disconnect", RetBool(TRUE), <<>>)
    /\ UNCHANGED <<config, creds, manager, azureHandles, access_token, drive_id, store, local>>

OneDriveDisconnect ==
    /\ Idle
    /\ kind = "onedrive"
    /\ session' = "None"
    /\ connected' = FALSE
    /\ last' = [Lifecycle("disconnect", RetBool(TRUE), <<>>)
                    EXCEPT !.had_session = session # "None", !.closed = session # "None"]
    /\ UNCHANGED <<config, creds, manager, azureHandles, access_token, drive_id, store, local>>

\* ------------------------------------------------- OneDriveConnector.__del__
\* a destructor clearing what the constructor was given, not the tokens
\* that connect obtained
OneDriveDelGivenOnly ==
    /\ Idle
    /\ kind = "onedrive"
    /\ creds' = [creds EXCEPT !.client_secret = Cleared(@)]
    /\ access_token' = access_token
    /\ session' = "None"
    /\ last' = [Lifecycle("__del__", NoRet, <<>>)
                    EXCEPT !.had_session = session # "None", !.closed = session # "None"]
    /\ UNCHANGED <<config, manager, connected, azureHandles, drive_id, store, local>>

OneDriveDel ==
    /\ Idle
    /\ kind = "onedrive"
    /\ creds' = [creds EXCEPT !.client_secret = Cleared(@), !.refresh_token = Cleared(@)]
    /\ access_token' = Cleared(access_token)
    /\ session' = "None"
    /\ last' = [Lifecycle("__del__", NoRet, <<>>)
                    EXCEPT !.had_session = session # "None", !.closed = session # "None"]
    /\ UNCHANGED <<config, manager, connected, azureHandles, drive_id, store, local>>

\* The outcome of a data operation: the value observed, the trace, and the
\* store and local file system it leaves.
Transfer(ret, trace, st, loc, wire, compared) ==
    [ret |-> ret, trace |-> trace, store |-> st, local |-> loc, wire |-> wire, compared |-> compared,
     ranges |-> <<>>]
Outcome(ret, trace, st, loc) == Transfer(ret, trace, st, loc, "none", FALSE)
Same(ret, trace) == Outcome(ret, trace, store, local)

NotConnectedAzure == "Not connected to Azure Blob Storage"
NotConnectedOneDrive == "Not connected to OneDrive"
\* another content than c: what a corrupted transfer delivers
Other(c) == IF c = "c1" THEN "c2" ELSE "c1"

\* --------------------------------------------- AzureBlobConnector.upload_file
\* out: what blob_client.upload_blob does ("ok" | "AzureError")
AzureUpload(file, p, allow, out) ==
    IF ~connected THEN Same(Fail(NotConnectedAzure), <<>>)
    ELSE IF ValidateRemotePath(p) # "ok" THEN Same(Fail(ValidateRemotePath(p)), <<>>)
    ELSE IF local[file] = "absent" THEN Same(Fail("File not found"), <<>>)
    ELSE IF CheckRateLimit(allow) = "AttributeError" THEN Same(Raise("AttributeError"), <<>>)
    ELSE IF CheckRateLimit(allow) = "RuntimeError" THEN Same(Fail(RateLimited), GateTrace)
    ELSE IF container_client = "None" THEN Same(Raise(NoneDeref), GateTrace)
    ELSE IF out = "AzureError"
         THEN Same(Fail("AzureError"), GateTrace \o <<"blob_client.upload_blob">>)
    ELSE Outcome(OkaySum(Sha256(local[file])),
                 GateTrace \o <<"blob_client.upload_blob">>,
                 Put(store, Blob(p.s, local[file], Sha256(local[file]))),
                 local)

\* ------------------------------------------- AzureBlobConnector.download_file
\* out: "ok", or the call that raises AzureError; corrupt: the body written
\* to disk differs from the stored blob
\* The verification step reporting the mismatch without removing the file.
AzureDownloadVerifyKeepFile(p, l, verify, wire, trace) ==
    LET stored == Lookup(store, p.s).checksum
    IN IF verify /\ stored # "none"
       THEN IF Sha256(wire) # stored
            THEN Transfer(Fail("Checksum verification failed"), trace, store,
                          [local EXCEPT ![l] = wire], wire, TRUE)
            ELSE Transfer(RetDict(TRUE, "", "", "True", "absent"), trace, store,
                          [local EXCEPT ![l] = wire], wire, TRUE)
       ELSE Transfer(RetDict(TRUE, "", "", "False", "absent"), trace, store,
                     [local EXCEPT ![l] = wire], wire, FALSE)

\* the step after the body is on disk: verify it against the recorded checksum
AzureDownloadVerify(p, l, verify, wire, trace) ==
    LET stored == Lookup(store, p.s).checksum
    IN IF verify /\ stored # "none"
       THEN IF Sha256(wire) # stored
            THEN Transfer(Fail("Checksum verification failed"), trace, store,
                          [local EXCEPT ![l] = "absent"], wire, TRUE)
            ELSE Transfer(RetDict(TRUE, "", "", "True", "absent"), trace, store,
                          [local EXCEPT ![l] = wire], wire, TRUE)
       ELSE Transfer(RetDict(TRUE, "", "", "False", "absent"), trace, store,
                     [local EXCEPT ![l] = wire], wire, FALSE)

AzureDownload(p, l, verify, allow, out, corrupt) ==
    IF ~connected THEN Same(Fail(NotConnectedAzure), <<>>)
    ELSE IF ValidateRemotePath(p) # "ok" THEN Same(Fail(ValidateRemotePath(p)), <<>>)
    ELSE IF CheckRateLimit(allow) = "AttributeError" THEN Same(Raise("AttributeError"), <<>>)
    ELSE IF CheckRateLimit(allow) = "RuntimeError" THEN Same(Fail(RateLimited), GateTrace)
    ELSE IF container_client = "None" THEN Same(Raise(NoneDeref), GateTrace)
    ELSE IF out = "AzureError in get_blob_properties"
         THEN Same(Fail("AzureError"), GateTrace \o <<"blob_client.get_blob_properties">>)
    ELSE IF ~Exists(store, p.s)
         THEN Same(Fail("Blob not found"), GateTrace \o <<"blob_client.get_blob_properties">>)
    ELSE IF out = "AzureError in download_blob"
         THEN Outcome(Fail("AzureError"),
                      GateTrace \o <<"blob_client.get_blob_properties", "blob_client.download_blob">>,
                      store, [local EXCEPT ![l] = "empty"])
    ELSE AzureDownloadVerify(p, l, verify,
                             IF corrupt THEN Other(Lookup(store, p.s).content)
                             ELSE Lookup(store, p.s).content,
                             GateTrace \o <<"blob_client.get_blob_properties", "blob_client.download_blob">>)

\* --------------------------------------------- AzureBlobConnector.delete_file
\* delete_file validating the path before it looks at the connection state
AzureDeleteValidateFirst(p, allow, out) ==
    IF ValidateRemotePath(p) # "ok" THEN Same(Fail(ValidateRemotePath(p)), <<>>)
    ELSE IF ~connected THEN Same(Fail(NotConnectedAzure), <<>>)
    ELSE Same(Raise("AttributeError"), <<>>)

AzureDelete(p, allow, out) ==
    IF ~connected THEN Same(Fail(NotConnectedAzure), <<>>)
    ELSE IF ValidateRemotePath(p) # "ok" THEN Same(Fail(ValidateRemotePath(p)), <<>>)
    ELSE IF CheckRateLimit(allow) = "AttributeError" THEN Same(Raise("AttributeError"), <<>>)
    ELSE IF CheckRateLimit(allow) = "RuntimeError" THEN Same(Fail(RateLimited), GateTrace)
    ELSE IF container_client = "None" THEN Same(Raise(NoneDeref), GateTrace)
    ELSE IF out = "AzureError"
         THEN Same(Fail("AzureError"), GateTrace \o <<"blob_client.delete_blob">>)
    ELSE IF ~Exists(store, p.s)
         THEN Same(OkayWarn("Blob did not exist"), GateTrace \o <<"blob_client.delete_blob">>)
    ELSE Outcome(Okay, GateTrace \o <<"blob_client.delete_blob">>, Remove(store, p.s), local)

\* ---------------------------------------------- AzureBlobConnector.list_files
IsPrefix(pre, s) == Len(pre) <= Len(s) /\ SubSeq(s, 1, Len(pre)) = pre
RECURSIVE SetToSeq(_)
SetToSeq(S) == IF S = {} THEN <<>> ELSE LET e == CHOOSE e \in S : TRUE IN <<e>> \o SetToSeq(S \ {e})

AzureList(prefix, allow, out) ==
    IF ~connected THEN Same(RetList(<<>>), <<>>)
    ELSE IF CheckRateLimit(allow) = "AttributeError" THEN Same(Raise("AttributeError"), <<>>)
    ELSE IF CheckRateLimit(allow) = "RuntimeError" THEN Same(RetList(<<>>), GateTrace)
    ELSE IF container_client = "None" THEN Same(Raise(NoneDeref), GateTrace)
    ELSE IF out = "AzureError"
         THEN Same(RetList(<<>>), GateTrace \o <<"container_client.list_blobs">>)
    ELSE Same(RetList(SetToSeq({b.path : b \in {c \in store : ~prefix.isstr \/ IsPrefix(prefix.s, c.path)}})),
              GateTrace \o <<"container_client.list_blobs">>)

\* --------------------------------------- AzureBlobConnector.get_file_metadata
AzureMetadata(p, allow, out) ==
    IF ~connected THEN Same(Fail(NotConnectedAzure), <<>>)
    ELSE IF ValidateRemotePath(p) # "ok" THEN Same(Fail(ValidateRemotePath(p)), <<>>)
    ELSE IF CheckRateLimit(allow) = "AttributeError" THEN Same(Raise("AttributeError"), <<>>)
    ELSE IF CheckRateLimit(allow) = "RuntimeError" THEN Same(Fail(RateLimited), GateTrace)
    ELSE IF container_client = "None" THEN Same(Raise(NoneDeref), GateTrace)
    ELSE IF out = "AzureError"
         THEN Same(Fail("AzureError"), GateTrace \o <<"blob_client.get_blob_properties">>)
    ELSE IF ~Exists(store, p.s)
         THEN Same(Fail("Blob not found"), GateTrace \o <<"blob_client.get_blob_properties">>)
    ELSE Same(OkaySum("etag"), GateTrace \o <<"blob_client.get_blob_properties">>)

\* ---------------------------------------- AzureBlobConnector.generate_sas_url
\* signs locally with the account key: no provider call
\* the value of pair k among the key=value pairs of a connection string
CsPart(cs, k) ==
    IF cs = CsWithKey /\ k \in {"AccountName", "AccountKey"} THEN "value" ELSE "None"
SasNeedsKey == "SAS generation requires account_key or connection_string"
SasNoCredentials == "Could not extract account credentials for SAS generation"
AzureSasUrl(p) ==
    IF ~connected THEN Same(Fail(NotConnectedAzure), <<>>)
    ELSE IF ValidateRemotePath(p) # "ok" THEN Same(Fail(ValidateRemotePath(p)), <<>>)
    ELSE IF ~Truthy(creds.account_key) /\ ~Truthy(creds.connection_string)
         THEN Same(Fail(SasNeedsKey), <<>>)
    ELSE LET parse == Truthy(creds.connection_string) /\ ~Truthy(creds.account_key)
             account_name == IF parse THEN CsPart(creds.connection_string, "AccountName")
                             ELSE creds.account_name
             account_key == IF parse THEN CsPart(creds.connection_string, "AccountKey")
                            ELSE creds.account_key
         IN IF ~Truthy(account_name) \/ ~Truthy(account_key)
            THEN Same(Fail(SasNoCredentials), <<>>)
            ELSE Same(Okay, <<>>)

\* ----------------------------------------------- AzureBlobConnector.copy_blob
\* start_copy_from_url schedules the copy at the provider and returns
AzureCopy(src, dst, out) ==
    IF ~connected THEN Same(Fail(NotConnectedAzure), <<>>)
    ELSE IF ValidateRemotePath(src) # "ok" THEN Same(Fail(ValidateRemotePath(src)), <<>>)
    ELSE IF ValidateRemotePath(dst) # "ok" THEN Same(Fail(ValidateRemotePath(dst)), <<>>)
    ELSE IF container_client = "None" THEN Same(Raise(NoneDeref), <<>>)
    ELSE IF out = "AzureError"
         THEN Same(Fail("AzureError"), <<"dest_blob.start_copy_from_url">>)
    ELSE IF ~Exists(store, src.s)
         THEN Same(Fail("Source blob not found"), <<"dest_blob.start_copy_from_url">>)
    ELSE Same(Okay, <<"dest_blob.start_copy_from_url">>)

\* ------------------------------------------------- Azure: the public methods
AzureOutcomes == {"ok", "AzureError"}
AzureDownloadOutcomes == {"ok", "AzureError in get_blob_properties", "AzureError in download_blob"}
\* the (source, destination) pairs callers pass to the copy operations
CopyArgs == {<<p, GoodPath>> : p \in FewPathArgs} \cup {<<GoodPath, p>> : p \in FewPathArgs}
            \cup {<<p, p>> : p \in FewPathArgs}

\* the blob or item a remote path names at the provider
RemoteKey(p) == IF kind = "onedrive" THEN LStripSlash(p.s) ELSE p.s

Effect(op, p, p2, file, verify, envOk, o) ==
    /\ Cardinality(o.store) <= MaxBlobs
    /\ store' = o.store
    /\ local' = o.local
    /\ last' = Call(op, p, p2, file, verify, connected, Exists(store, RemoteKey(p)), envOk,
                    o.ret, o.trace, o.wire, o.compared)
    /\ UNCHANGED <<config, creds, manager, connected, azureHandles, oneDriveState>>

\* The caller's mapping once upload_file is over.  `blob_metadata = metadata
\* or {}' is the caller's dict itself unless that is None or empty, and the
\* three entries are stored into it before the blob client is asked for.
AzureMetadataAfter(file, p, allow, m) ==
    IF /\ connected
       /\ ValidateRemotePath(p) = "ok"
       /\ local[file] # "absent"
       /\ CheckRateLimit(allow) = "ok"
       /\ m.isdict /\ m.keys # {}
    THEN Dict(m.keys \cup {"checksum", "upload_time", "original_name"})
    ELSE m

AzureUploadFile ==
    /\ Idle
    /\ kind = "azure"
    /\ \E file \in LocalPaths, p \in args, allow \in LimiterAnswers, out \in Answers(AzureOutcomes),
          m \in PassedMetadata :
        LET o == AzureUpload(file, p, allow, out)
        IN /\ Cardinality(o.store) <= MaxBlobs
           /\ store' = o.store
           /\ local' = o.local
           /\ last' = [Call("upload_file", p, NoPath, file, FALSE, connected,
                            Exists(store, RemoteKey(p)), allow /\ out = "ok",
                            o.ret, o.trace, o.wire, o.compared)
                          EXCEPT !.metadata = m,
                                 !.metadata_after = AzureMetadataAfter(file, p, allow, m)]
    /\ UNCHANGED <<config, creds, manager, connected, azureHandles, oneDriveState>>

AzureDownloadFile ==
    /\ Idle
    /\ kind = "azure"
    /\ \E p \in args, l \in LocalPaths, verify \in BOOLEAN, allow \in LimiterAnswers,
          out \in Answers(AzureDownloadOutcomes),
          corrupt \in Corruptions :
        Effect("download_file", p, NoPath, l, verify, allow /\ out = "ok" /\ ~corrupt,
               AzureDownload(p, l, verify, allow, out, corrupt))

AzureDeleteFile ==
    /\ Idle
    /\ kind = "azure"
    /\ \E p \in args, allow \in LimiterAnswers, out \in Answers(AzureOutcomes) :
        Effect("delete_file", p, NoPath, "l1", FALSE, allow /\ out = "ok",
               AzureDelete(p, allow, out))

AzureListFiles ==
    /\ Idle
    /\ kind = "azure"
    /\ \E p \in args, allow \in LimiterAnswers, out \in Answers(AzureOutcomes) :
        Effect("list_files", p, NoPath, "l1", FALSE, allow /\ out = "ok",
               AzureList(p, allow, out))

AzureGetFileMetadata ==
    /\ Idle
    /\ kind = "azure"
    /\ \E p \in args, allow \in LimiterAnswers, out \in Answers(AzureOutcomes) :
        Effect("get_file_metadata", p, NoPath, "l1", FALSE, allow /\ out = "ok",
               AzureMetadata(p, allow, out))

AzureGenerateSasUrl ==
    /\ Idle
    /\ kind = "azure"
    /\ \E p \in args :
        Effect("generate_sas_url", p, NoPath, "l1", FALSE, TRUE,
               AzureSasUrl(p))

AzureCopyBlob ==
    /\ Idle
    /\ kind = "azure"
    /\ \E pair \in CopyArgs, out \in (IF connected THEN AzureOutcomes ELSE {"ok"}) :
        Effect("copy_blob", pair[1], pair[2], "l1", FALSE, out = "ok",
               AzureCopy(pair[1], pair[2], out))

\* ----------------------------------------------------- OneDrive: requests
\* FileSize in bytes of each content
FileSize(c) ==
    CASE c = "c1" -> 4194303 [] c = "c2" -> 10485761 [] c = "c3" -> 4194304 [] OTHER -> 0
\* The bytes f.read() can deliver in all once the size has been measured:
\* all of them, or fewer when another process truncates the file meanwhile
\* (to half, or to nothing).  Files are truncated under a running upload
\* only in the runs made for the upload itself.
ReadableSizes(c) ==
    IF universe = "upload" THEN {FileSize(c), FileSize(c) \div 2, 0} ELSE {FileSize(c)}
\* upload_file: below this size one PUT, otherwise an upload session
SimpleUploadLimit == 4 * 1024 * 1024
\* _resumable_upload: chunk_size
ChunkSize == 10 * 1024 * 1024
\* most requests one operation issues here: the session POST and the chunk PUTs
MaxRequests == 3
\* How the provider treats the requests of one operation: request number
\* `fail' (0: none) is answered with an error status ("error") or raises in
\* requests ("exception"); the others are processed normally.
HttpFaults == {[fail |-> 0, how |-> "error"]}
              \cup {[fail |-> n, how |-> h] : n \in 1..MaxRequests, h \in {"error", "exception"}}
\* the provider answers only when it is called
GatedFaults == IF connected /\ hook THEN HttpFaults ELSE {NoFault}
UngatedFaults == IF connected THEN HttpFaults ELSE {NoFault}
\* what str(e) of a requests exception, or of the AttributeError of
\* self._session being None, becomes in the result
RequestsError == "requests exception"

\* OneDriveConnector._get_item_path: the item a remote path addresses
ItemKey(p) == LStripSlash(p.s)

\* ------------------------------------------ OneDriveConnector._simple_upload
OneDriveSimpleUpload(file, p, f) ==
    IF f.fail = 1 /\ f.how = "exception"
    THEN Same(Fail(RequestsError), GateTrace \o <<"PUT content">>)
    ELSE IF f.fail = 1
    THEN Same(Fail("Upload failed"), GateTrace \o <<"PUT content">>)
    ELSE Outcome(OkaySum(Sha256(local[file])), GateTrace \o <<"PUT content">>,
                 Put(store, Blob(ItemKey(p), local[file], "none")), local)

\* --------------------------------------- OneDriveConnector._resumable_upload
Min(a, b) == IF a < b THEN a ELSE b
\* what one pass of the loop sends: f.read(chunk_size) delivers `len' bytes,
\* the Content-Range names offset..chunk_end-1 of size
ChunkRequest(offset, size, readable) ==
    LET len == Min(ChunkSize, readable)
        chunk_end == Min(offset + len, size)
    IN [a |-> offset, b |-> chunk_end - 1, total |-> size, content_length |-> len,
        chunk_end |-> chunk_end]
NoChunks == [puts |-> <<>>, ranges |-> <<>>, ok |-> TRUE, raised |-> FALSE, hang |-> FALSE]
OneChunk(r, ok, raised, hang) ==
    [puts |-> <<"PUT chunk">>, ranges |-> <<r>>, ok |-> ok, raised |-> raised, hang |-> hang]
\* a chunk loop that notes a refused chunk and goes on with the next
RECURSIVE ChunkLoopGoOn(_, _, _, _, _)
ChunkLoopGoOn(offset, size, readable, n, f) ==
    IF ~(offset < size) \/ n > MaxRequests + 1 THEN NoChunks
    ELSE LET r == ChunkRequest(offset, size, readable)
             rest == ChunkLoopGoOn(r.chunk_end, size, readable - r.content_length, n + 1, f)
         IN [puts |-> <<"PUT chunk">> \o rest.puts,
             ranges |-> <<r>> \o rest.ranges,
             ok |-> rest.ok /\ f.fail # n,
             raised |-> rest.raised \/ (f.fail = n /\ f.how = "exception"),
             hang |-> FALSE]
\* a chunk loop whose Content-Range ends one byte too far
RECURSIVE ChunkLoopOverlap(_, _, _, _, _)
ChunkLoopOverlap(offset, size, readable, n, f) ==
    IF ~(offset < size) THEN NoChunks
    ELSE LET r == ChunkRequest(offset, size, readable)
             sent == [r EXCEPT !.b = r.chunk_end]
         IN IF f.fail = n THEN OneChunk(sent, FALSE, f.how = "exception", FALSE)
            ELSE IF r.chunk_end = offset /\ f.fail < n THEN OneChunk(sent, FALSE, FALSE, TRUE)
            ELSE LET rest == ChunkLoopOverlap(r.chunk_end, size,
                                              readable - r.content_length, n + 1, f)
                 IN [rest EXCEPT !.puts = <<"PUT chunk">> \o rest.puts,
                                 !.ranges = <<sent>> \o rest.ranges]

\* The chunk loop from `offset' of a file measured as `size' bytes of which
\* `readable' bytes can still be read: the PUTs it issues (request numbers
\* from n), the ranges they carry, whether every chunk was accepted, and
\* whether the loop goes on for ever: an accepted chunk that moves the offset
\* nowhere is followed by the same request again, until one is refused.
RECURSIVE ChunkLoop(_, _, _, _, _)
ChunkLoop(offset, size, readable, n, f) ==
    IF ~(offset < size) THEN NoChunks
    ELSE LET r == ChunkRequest(offset, size, readable)
         IN IF f.fail = n THEN OneChunk(r, FALSE, f.how = "exception", FALSE)
            ELSE IF r.chunk_end = offset /\ f.fail < n THEN OneChunk(r, FALSE, FALSE, TRUE)
            ELSE LET rest == ChunkLoop(r.chunk_end, size, readable - r.content_length,
                                       n + 1, f)
                 IN [rest EXCEPT !.puts = <<"PUT chunk">> \o rest.puts,
                                 !.ranges = <<r>> \o rest.ranges]

\* the call that never returns: the caller stays blocked in it
Hang == [RetDict(FALSE, "", "", "absent", "absent") EXCEPT !.type = "hang"]
OneDriveResumableUpload(file, p, f, readable) ==
    IF f.fail = 1 /\ f.how = "exception"
    THEN Same(Fail(RequestsError), GateTrace \o <<"POST createUploadSession">>)
    ELSE IF f.fail = 1
    THEN Same(Fail("Failed to create upload session"), GateTrace \o <<"POST createUploadSession">>)
    ELSE LET loop == ChunkLoop(0, FileSize(local[file]), readable, 2, f)
             trace == GateTrace \o <<"POST createUploadSession">> \o loop.puts
             o == IF loop.hang THEN Same(Hang, trace)
                  ELSE IF loop.raised THEN Same(Fail(RequestsError), trace)
                  ELSE IF ~loop.ok THEN Same(Fail("Chunk upload failed"), trace)
                  ELSE Outcome(OkaySum(Sha256(local[file])), trace,
                               Put(store, Blob(ItemKey(p), local[file], "none")), local)
         IN [o EXCEPT !.ranges = loop.ranges]

\* --------------------------------------------- OneDriveConnector.upload_file
OneDriveUpload(file, p, allow, f, readable) ==
    IF ~connected THEN Same(Fail(NotConnectedOneDrive), <<>>)
    ELSE IF ValidateRemotePath(p) # "ok" THEN Same(Fail(ValidateRemotePath(p)), <<>>)
    ELSE IF local[file] = "absent" THEN Same(Fail("File not found"), <<>>)
    ELSE IF CheckRateLimit(allow) = "AttributeError" THEN Same(Raise("AttributeError"), <<>>)
    ELSE IF CheckRateLimit(allow) = "RuntimeError" THEN Same(Fail(RateLimited), GateTrace)
    ELSE IF session = "None" THEN Same(Fail(RequestsError), GateTrace)
    ELSE IF FileSize(local[file]) < SimpleUploadLimit THEN OneDriveSimpleUpload(file, p, f)
    ELSE OneDriveResumableUpload(file, p, f, readable)

\* ------------------------------------------- OneDriveConnector.download_file
OneDriveDownload(p, l, verify, allow, f, corrupt) ==
    IF ~connected THEN Same(Fail(NotConnectedOneDrive), <<>>)
    ELSE IF ValidateRemotePath(p) # "ok" THEN Same(Fail(ValidateRemotePath(p)), <<>>)
    ELSE IF CheckRateLimit(allow) = "AttributeError" THEN Same(Raise("AttributeError"), <<>>)
    ELSE IF CheckRateLimit(allow) = "RuntimeError" THEN Same(Fail(RateLimited), GateTrace)
    ELSE IF session = "None" THEN Same(Fail(RequestsError), GateTrace)
    ELSE IF f.fail = 1 /\ f.how = "exception"
         THEN Same(Fail(RequestsError), GateTrace \o <<"GET content">>)
    ELSE IF f.fail = 1
         THEN Same(Fail("Download failed"), GateTrace \o <<"GET content">>)
    ELSE IF ~Exists(store, ItemKey(p))
         THEN Same(Fail("File not found"), GateTrace \o <<"GET content">>)
    ELSE LET wire == IF corrupt THEN Other(Lookup(store, ItemKey(p)).content)
                     ELSE Lookup(store, ItemKey(p)).content
         IN Transfer(RetDict(TRUE, "", "", IF verify THEN "True" ELSE "False", Sha256(wire)),
                     GateTrace \o <<"GET content">>, store, [local EXCEPT ![l] = wire],
                     wire, FALSE)

\* --------------------------------------------- OneDriveConnector.delete_file
OneDriveDelete(p, allow, f) ==
    IF ~connected THEN Same(Fail(NotConnectedOneDrive), <<>>)
    ELSE IF ValidateRemotePath(p) # "ok" THEN Same(Fail(ValidateRemotePath(p)), <<>>)
    ELSE IF CheckRateLimit(allow) = "AttributeError" THEN Same(Raise("AttributeError"), <<>>)
    ELSE IF CheckRateLimit(allow) = "RuntimeError" THEN Same(Fail(RateLimited), GateTrace)
    ELSE IF session = "None" THEN Same(Fail(RequestsError), GateTrace)
    ELSE IF f.fail = 1 /\ f.how = "exception"
         THEN Same(Fail(RequestsError), GateTrace \o <<"DELETE item">>)
    ELSE IF f.fail = 1
         THEN Same(Fail("Delete failed"), GateTrace \o <<"DELETE item">>)
    ELSE IF ~Exists(store, ItemKey(p))
         THEN Same(OkayWarn("File did not exist"), GateTrace \o <<"DELETE item">>)
    ELSE Outcome(Okay, GateTrace \o <<"DELETE item">>, Remove(store, ItemKey(p)), local)

\* ---------------------------------------------- OneDriveConnector.list_files
\* entries per page of a children listing
PageSize == 1
\* the children of folder `pre' (the root when pre is empty)
Children(pre) == {b.path : b \in {c \in store : IF pre = <<>> THEN TRUE
                                                ELSE IsPrefix(pre \o <<"/">>, c.path)}}
\* the page loop over the entries still to come: request n is the next GET
RECURSIVE PageLoop(_, _, _)
PageLoop(todo, n, f) ==
    IF f.fail = n
    THEN [items |-> <<>>, gets |-> <<"GET children">>, raised |-> f.how = "exception"]
    ELSE LET page == SubSeq(todo, 1, Min(PageSize, Len(todo)))
             more == SubSeq(todo, Len(page) + 1, Len(todo))
         IN IF more = <<>>
            THEN [items |-> page, gets |-> <<"GET children">>, raised |-> FALSE]
            ELSE LET rest == PageLoop(more, n + 1, f)
                 IN [items |-> page \o rest.items,
                     gets |-> <<"GET children">> \o rest.gets,
                     raised |-> rest.raised]

OneDriveList(prefix, allow, f) ==
    IF ~connected THEN Same(RetList(<<>>), <<>>)
    ELSE IF CheckRateLimit(allow) = "AttributeError" THEN Same(Raise("AttributeError"), <<>>)
    ELSE IF CheckRateLimit(allow) = "RuntimeError" THEN Same(RetList(<<>>), GateTrace)
    ELSE IF ~prefix.isstr \/ session = "None" THEN Same(RetList(<<>>), GateTrace)
    ELSE LET loop == PageLoop(SetToSeq(Children(ItemKey(prefix))), 1, f)
         IN IF loop.raised THEN Same(RetList(<<>>), GateTrace \o loop.gets)
            ELSE Same(RetList(loop.items), GateTrace \o loop.gets)

\* --------------------------------------- OneDriveConnector.get_file_metadata
OneDriveMetadata(p, f) ==
    IF ~connected THEN Same(Fail(NotConnectedOneDrive), <<>>)
    ELSE IF ValidateRemotePath(p) # "ok" THEN Same(Fail(ValidateRemotePath(p)), <<>>)
    ELSE IF session = "None" THEN Same(Fail(RequestsError), <<>>)
    ELSE IF f.fail = 1 /\ f.how = "exception"
         THEN Same(Fail(RequestsError), <<"GET item">>)
    ELSE IF f.fail = 1
         THEN Same(Fail("Metadata fetch failed"), <<"GET item">>)
    ELSE IF ~Exists(store, ItemKey(p))
         THEN Same(Fail("File not found"), <<"GET item">>)
    ELSE Same(OkaySum(Sha256(Lookup(store, ItemKey(p)).content)), <<"GET item">>)

\* ------------------------------------- OneDriveConnector.create_sharing_link
OneDriveSharingLink(p, f) ==
    IF ~connected THEN Same(Fail(NotConnectedOneDrive), <<>>)
    ELSE IF ~p.isstr THEN Same(Fail("AttributeError"), <<>>)
    ELSE IF session = "None" THEN Same(Fail(RequestsError), <<>>)
    ELSE IF f.fail = 1 /\ f.how = "exception"
         THEN Same(Fail(RequestsError), <<"POST createLink">>)
    ELSE IF f.fail = 1 \/ ~Exists(store, ItemKey(p))
         THEN Same(Fail("Failed to create link"), <<"POST createLink">>)
    ELSE Same(Okay, <<"POST createLink">>)

\* --------------------------------------------- OneDriveConnector.copy_file
\* The copy runs at the provider after the call has returned.
OneDriveCopy(src, dst, f) ==
    IF ~connected THEN Same(Fail(NotConnectedOneDrive), <<>>)
    ELSE IF ~dst.isstr THEN Same(Fail("TypeError"), <<>>)
    ELSE IF session = "None" THEN Same(Fail(RequestsError), <<>>)
    ELSE IF f.fail = 1 /\ f.how = "exception"
         THEN Same(Fail(RequestsError), <<"GET folder">>)
    ELSE IF f.fail = 1
         THEN Same(Fail("Destination folder not found"), <<"GET folder">>)
    ELSE IF ~src.isstr THEN Same(Fail("AttributeError"), <<"GET folder">>)
    ELSE IF f.fail = 2 /\ f.how = "exception"
         THEN Same(Fail(RequestsError), <<"GET folder", "POST copy">>)
    ELSE IF f.fail = 2 \/ ~Exists(store, ItemKey(src))
         THEN Same(Fail("Copy failed"), <<"GET folder", "POST copy">>)
    ELSE Same(Okay, <<"GET folder", "POST copy">>)

\* ---------------------------------------------- OneDrive: the public methods
OneDriveUploadFile ==
    /\ Idle
    /\ kind = "onedrive"
    /\ \E file \in LocalPaths, p \in args, allow \in LimiterAnswers, f \in GatedFaults :
       \E readable \in ReadableSizes(local[file]), m \in PassedMetadata :
        LET o == OneDriveUpload(file, p, allow, f, readable)
        IN /\ Cardinality(o.store) <= MaxBlobs
           /\ store' = o.store
           /\ local' = o.local
           /\ last' = [Call("upload_file", p, NoPath, file, FALSE, connected,
                            Exists(store, RemoteKey(p)), allow /\ f.fail = 0,
                            o.ret, o.trace, o.wire, o.compared)
                          EXCEPT !.fault = f, !.readable = readable, !.ranges = o.ranges,
                                 !.metadata = m, !.metadata_after = m]
    /\ UNCHANGED <<config, creds, manager, connected, azureHandles, oneDriveState>>

OneDriveDownloadFile ==
    /\ Idle
    /\ kind = "onedrive"
    /\ \E p \in args, l \in LocalPaths, verify \in BOOLEAN, allow \in LimiterAnswers,
          f \in GatedFaults, corrupt \in Corruptions :
        Effect("download_file", p, NoPath, l, verify, allow /\ f.fail = 0 /\ ~corrupt,
               OneDriveDownload(p, l, verify, allow, f, corrupt))

OneDriveDeleteFile ==
    /\ Idle
    /\ kind = "onedrive"
    /\ \E p \in args, allow \in LimiterAnswers, f \in GatedFaults :
        Effect("delete_file", p, NoPath, "l1", FALSE, allow /\ f.fail = 0,
               OneDriveDelete(p, allow, f))

OneDriveListFiles ==
    /\ Idle
    /\ kind = "onedrive"
    /\ \E p \in args, allow \in LimiterAnswers, f \in GatedFaults :
        Effect("list_files", p, NoPath, "l1", FALSE, allow /\ f.fail = 0,
               OneDriveList(p, allow, f))

OneDriveGetFileMetadata ==
    /\ Idle
    /\ kind = "onedrive"
    /\ \E p \in args, f \in UngatedFaults :
        Effect("get_file_metadata", p, NoPath, "l1", FALSE, f.fail = 0,
               OneDriveMetadata(p, f))

OneDriveCreateSharingLink ==
    /\ Idle
    /\ kind = "onedrive"
    /\ \E p \in args, f \in UngatedFaults :
        Effect("create_sharing_link", p, NoPath, "l1", FALSE, f.fail = 0,
               OneDriveSharingLink(p, f))

OneDriveCopyFile ==
    /\ Idle
    /\ kind = "onedrive"
    /\ \E pair \in CopyArgs, f \in UngatedFaults :
        Effect("copy_file", pair[1], pair[2], "l1", FALSE, f.fail = 0,
               OneDriveCopy(pair[1], pair[2], f))

\* The caller takes the result; the connector is ready for the next call.
Return ==
    /\ ~Idle
    /\ last.ret.type # "hang"
    /\ last' = NoCall
    /\ UNCHANGED <<config, creds, manager, connected, azureHandles, oneDriveState, store, local>>

Next ==
    \/ Return
    \/ AzureUploadFile
    \/ AzureDownloadFile
    \/ AzureDeleteFile
    \/ AzureListFiles
    \/ AzureGetFileMetadata
    \/ AzureGenerateSasUrl
    \/ AzureCopyBlob
    \/ OneDriveUploadFile
    \/ OneDriveDownloadFile
    \/ OneDriveDeleteFile
    \/ OneDriveListFiles
    \/ OneDriveGetFileMetadata
    \/ OneDriveCreateSharingLink
    \/ OneDriveCopyFile
    \/ AzureConnect
    \/ AzureDisconnect
    \/ OneDriveConnect
    \/ OneDriveDisconnect

\* The connector classes as written.
Spec == Init /\ [][Next]_vars

\* The connector classes completed with the _check_rate_limit method the
\* source calls: the gate in front of the provider calls lets them through.
SpecHook == InitHook /\ [][Next]_vars
\* ================================================== ConnectorManager
\* The connectors as a manager sees them: objects with a connect(), a
\* disconnect() and the data operations.
\* connect(): what the provider, or the client library, does
ConnectAnswers(o) ==
    IF KindOf(o) = "azure" THEN <<"ok", "AzureError", "raise">>
    ELSE <<"ok", "rejected", "exception">>
\* connect() of connector o, whose _connected is conn: the value returned
\* ("raise": an exception leaves connect) and _connected afterwards.  Azure
\* catches AzureError only; OneDrive returns False on a failed
\* authentication or a non-200 answer without touching _connected.
ConnectorConnect(o, conn, ans) ==
    CASE ans = "ok" -> [ret |-> "True", connected |-> TRUE]
      [] ans \in {"AzureError", "exception"} -> [ret |-> "False", connected |-> FALSE]
      [] ans = "rejected" -> [ret |-> "False", connected |-> conn]
      [] OTHER -> [ret |-> "raise", connected |-> conn]
\* whether the operation calls self._check_rate_limit before the provider
Gated(o, op) == ~(KindOf(o) = "onedrive" /\ op = "get_file_metadata")
\* what a data operation of connector o does when called
OpAnswers(o, op, conn) ==
    IF ~conn THEN <<"not_connected">>
    ELSE IF Gated(o, op) /\ ~hook THEN <<"raise">>
    ELSE <<"success", "failure">>
\* the answers of a list, as a set
Range(s) == {s[i] : i \in 1..Len(s)}
\* the value a data operation hands back for each answer
OpResult(op, ans) ==
    IF ans = "raise" THEN MRet("raise", FALSE, "AttributeError")
    ELSE IF op = "list_files" THEN MRet("list", ans = "success", "")
    ELSE IF ans = "success" THEN MRet("dict", TRUE, "")
    ELSE IF ans = "not_connected" THEN MRet("dict", FALSE, "Not connected")
    ELSE MRet("dict", FALSE, "provider error")
Invocation(n, o, op) == [name |-> n, obj |-> o, op |-> op]

\* ------------------------------------------ ConnectorManager.add_connector
\* add_connector making every connector it registers the active one
AddConnectorActivates ==
    /\ MIdle
    /\ \E n \in Names, o \in Objs :
        /\ registry' = [registry EXCEPT ![n] = o]
        /\ active' = n
        /\ mlast' = MCall("add_connector", n, o, <<>>, MRet("bool", TRUE, ""),
                          NoResults, NoAnswers, <<>>)
    /\ UNCHANGED <<config, creds, connected, azureHandles, oneDriveState, store, local, last,
                   objConnected>>

AddConnector ==
    /\ MIdle
    /\ \E n \in Names, o \in Objs :
        /\ registry' = [registry EXCEPT ![n] = o]
        /\ active' = IF Registered = {} THEN n ELSE active
        /\ mlast' = MCall("add_connector", n, o, <<>>, MRet("bool", TRUE, ""),
                          NoResults, NoAnswers, <<>>)
    /\ UNCHANGED <<config, creds, connected, azureHandles, oneDriveState, store, local, last,
                   objConnected>>

\* --------------------------------------- ConnectorManager.remove_connector
\* remove_connector leaving the active name as it was
NewActiveStale(n) == {active}

\* the names the active pointer may move to when name n is removed
NewActive(n) ==
    IF active # n THEN {active}
    ELSE IF Registered \ {n} = {} THEN {NoName}
    ELSE Registered \ {n}
RemoveConnector ==
    /\ MIdle
    /\ \E n \in Names :
        IF n \in Registered
        THEN /\ registry' = [registry EXCEPT ![n] = "None"]
             /\ active' \in NewActive(n)
             /\ mlast' = MCall("remove_connector", n, "None", <<>>, MRet("bool", TRUE, ""),
                               NoResults, NoAnswers, <<>>)
        ELSE /\ UNCHANGED <<registry, active>>
             /\ mlast' = MCall("remove_connector", n, "None", <<>>, MRet("bool", FALSE, ""),
                               NoResults, NoAnswers, <<>>)
    /\ UNCHANGED <<config, creds, connected, azureHandles, oneDriveState, store, local, last,
                   objConnected>>

\* ------------------------------------------------ ConnectorManager.set_active
\* set_active taking any name, registered or not
SetActiveAnyName ==
    /\ MIdle
    /\ \E n \in Names :
        /\ active' = n
        /\ mlast' = MCall("set_active", n, "None", <<>>, MRet("bool", TRUE, ""),
                          NoResults, NoAnswers, <<>>)
    /\ UNCHANGED <<config, creds, connected, azureHandles, oneDriveState, store, local, last,
                   registry, objConnected>>

SetActive ==
    /\ MIdle
    /\ \E n \in Names :
        /\ active' = IF n \in Registered THEN n ELSE active
        /\ mlast' = MCall("set_active", n, "None", <<>>, MRet("bool", n \in Registered, ""),
                          NoResults, NoAnswers, <<>>)
    /\ UNCHANGED <<config, creds, connected, azureHandles, oneDriveState, store, local, last,
                   registry, objConnected>>

\* ------------------------------------------- ConnectorManager.list_connectors
\* one entry per registered name; its 'active' flag says whether the name is
\* the active one (recorded in results: "True" | "False")
ListConnectors ==
    /\ MIdle
    /\ mlast' = MCall("list_connectors", NoName, "None", <<>>, MRet("list", TRUE, ""),
                      [n \in Names |-> IF n \notin Registered THEN "absent"
                                       ELSE IF n = active THEN "True" ELSE "False"],
                      NoAnswers, <<>>)
    /\ UNCHANGED <<config, creds, connected, azureHandles, oneDriveState, store, local, last,
                   registry, active, objConnected>>

\* ------------------------------------------------ ConnectorManager.connect_all
Max(S) == CHOOSE x \in S : \A y \in S : y <= x
\* the answers the registered connectors may give, one per name
AnswerMaps(called, S(_)) ==
    LET most == IF called = {} THEN 1 ELSE Max({Len(S(registry[n])) : n \in called})
        Nth(s, i) == s[IF i > Len(s) THEN Len(s) ELSE i]
    IN {[n \in Names |-> IF n \in called THEN Nth(S(registry[n]), f[n]) ELSE "none"] :
            f \in [called -> 1..most]}
\* connect() on each registered connector in turn; an exception is caught
\* and reported as False
RECURSIVE ConnectAllLoop(_, _, _, _, _)
ConnectAllLoop(i, ans, conn, results, calls) ==
    IF i > MaxNames THEN [conn |-> conn, results |-> results, calls |-> calls]
    ELSE LET n == NameOrder[i]
             o == registry[n]
             r == ConnectorConnect(o, conn[o], ans[n])
         IN IF o = "None" THEN ConnectAllLoop(i + 1, ans, conn, results, calls)
            ELSE ConnectAllLoop(i + 1, ans, [conn EXCEPT ![o] = r.connected],
                                [results EXCEPT ![n] = IF r.ret = "True" THEN "True" ELSE "False"],
                                Append(calls, Invocation(n, o, "connect")))
ConnectAll ==
    /\ MIdle
    /\ \E ans \in AnswerMaps(Registered, ConnectAnswers) :
        LET r == ConnectAllLoop(1, ans, objConnected, NoResults, <<>>)
        IN /\ objConnected' = r.conn
           /\ mlast' = MCall("connect_all", NoName, "None", <<>>, MRet("map", TRUE, ""),
                             r.results, ans, r.calls)
    /\ UNCHANGED <<config, creds, connected, azureHandles, oneDriveState, store, local, last,
                   registry, active>>

\* --------------------------------------------- ConnectorManager.disconnect_all
\* disconnect() of either connector returns True and clears _connected
RECURSIVE DisconnectAllLoop(_, _, _, _)
DisconnectAllLoop(i, conn, results, calls) ==
    IF i > MaxNames THEN [conn |-> conn, results |-> results, calls |-> calls]
    ELSE LET n == NameOrder[i]
             o == registry[n]
         IN IF o = "None" THEN DisconnectAllLoop(i + 1, conn, results, calls)
            ELSE DisconnectAllLoop(i + 1, [conn EXCEPT ![o] = FALSE],
                                   [results EXCEPT ![n] = "True"],
                                   Append(calls, Invocation(n, o, "disconnect")))
DisconnectAll ==
    /\ MIdle
    /\ LET r == DisconnectAllLoop(1, objConnected, NoResults, <<>>)
       IN /\ objConnected' = r.conn
          /\ mlast' = MCall("disconnect_all", NoName, "None", <<>>, MRet("map", TRUE, ""),
                            r.results, [n \in Names |-> IF n \in Registered THEN "ok" ELSE "none"],
                            r.calls)
    /\ UNCHANGED <<config, creds, connected, azureHandles, oneDriveState, store, local, last,
                   registry, active>>

\* ------------------- ConnectorManager.upload_file ... get_file_metadata
NoConnector == "No connector available"
\* a manager that always uses the active connector
TargetActive(n) == active

\* the connector a call is for: the one named, else the active one
Target(n) == IF n # NoName THEN n ELSE active
Delegate(op) ==
    /\ \E n \in Names \cup {NoName} :
        IF Target(n) \notin Registered
        THEN mlast' = MCall(op, n, "None", <<>>,
                            IF op = "list_files" THEN MRet("list", FALSE, "")
                            ELSE MRet("dict", FALSE, NoConnector),
                            NoResults, NoAnswers, <<>>)
        ELSE LET t == Target(n)
                 o == registry[t]
             IN \E a \in Range(OpAnswers(o, op, objConnected[o])) :
                    mlast' = MCall(op, n, "None", <<>>, OpResult(op, a), NoResults,
                                   [NoAnswers EXCEPT ![t] = a], <<Invocation(t, o, op)>>)
    /\ UNCHANGED <<config, creds, connected, azureHandles, oneDriveState, store, local, last,
                   registry, active, objConnected>>
ManagerUploadFile ==
    /\ MIdle
    /\ Delegate("upload_file")
ManagerDownloadFile ==
    /\ MIdle
    /\ Delegate("download_file")
ManagerDeleteFile ==
    /\ MIdle
    /\ Delegate("delete_file")
ManagerListFiles ==
    /\ MIdle
    /\ Delegate("list_files")
ManagerGetFileMetadata ==
    /\ MIdle
    /\ Delegate("get_file_metadata")

\* ------------------------- ConnectorManager.sync_file_across_connectors
\* longest target_connectors list given
MaxTargets == 2
\* target_connectors: lists of distinct names
TargetLists ==
    {s \in UNION {[1..k -> Names] : k \in 1..MaxTargets} :
        \A i, j \in 1..Len(s) : i # j => s[i] # s[j]}
InList(n, s) == \E i \in 1..Len(s) : s[i] = n
UploadAnswers(o) == OpAnswers(o, "upload_file", objConnected[o])
\* what reading the file from the source connector gives
DownloadAnswers(o) == OpAnswers(o, "download_file", objConnected[o])
\* what each target does with the upload: registered targets answer,
\* the other names are not called
SyncAnswers(ts) == AnswerMaps({n \in Registered : InList(n, ts)}, UploadAnswers)
\* the file is read from the source, then one upload per registered target,
\* in the order given; an exception is caught and recorded as a failure
SyncResults(ts, ans) ==
    [n \in Names |-> IF ~InList(n, ts) THEN "absent"
                     ELSE IF ans[n] = "success" THEN "True" ELSE "False"]
\* the uploads of a sync that gives up at the first name it does not know
RECURSIVE SyncCallsStopAtMissing(_)
SyncCallsStopAtMissing(ts) ==
    IF ts = <<>> \/ Head(ts) \notin Registered THEN <<>>
    ELSE <<Invocation(Head(ts), registry[Head(ts)], "upload_file")>>
         \o SyncCallsStopAtMissing(Tail(ts))

RECURSIVE SyncCalls(_)
SyncCalls(ts) ==
    IF ts = <<>> THEN <<>>
    ELSE (IF Head(ts) \in Registered
          THEN <<Invocation(Head(ts), registry[Head(ts)], "upload_file")>> ELSE <<>>)
         \o SyncCalls(Tail(ts))
SourceNotFound == "Source connector not found"
\* a sync that delivers to the targets without looking for the source
SyncFileIgnoringSource ==
    /\ MIdle
    /\ \E s \in Names, ts \in TargetLists :
        \E ans \in SyncAnswers(ts) :
            mlast' = MCall("sync_file_across_connectors", s, "None", ts,
                           MRet("dict", \A i \in 1..Len(ts) : ans[ts[i]] = "success", ""),
                           SyncResults(ts, ans), ans, SyncCalls(ts))
    /\ UNCHANGED <<config, creds, connected, azureHandles, oneDriveState, store, local, last,
                   registry, active, objConnected>>

SyncFileAcrossConnectors ==
    /\ MIdle
    /\ \E s \in Names, ts \in TargetLists :
        IF s \notin Registered
        THEN mlast' = MCall("sync_file_across_connectors", s, "None", ts,
                            MRet("dict", FALSE, SourceNotFound), NoResults, NoAnswers, <<>>)
        ELSE \E ans \in SyncAnswers(ts), d \in Range(DownloadAnswers(registry[s])) :
                mlast' = [MCall("sync_file_across_connectors", s, "None", ts,
                                MRet("dict", /\ d = "success"
                                             /\ \A i \in 1..Len(ts) : ans[ts[i]] = "success",
                                     ""),
                                SyncResults(ts, ans), ans,
                                <<Invocation(s, registry[s], "download_file")>> \o SyncCalls(ts))
                            EXCEPT !.source_answer = d]
    /\ UNCHANGED <<config, creds, connected, azureHandles, oneDriveState, store, local, last,
                   registry, active, objConnected>>

\* The caller takes the result; the manager is ready for the next call.
ManagerReturn ==
    /\ ~MIdle
    /\ mlast' = NoMCall
    /\ UNCHANGED <<config, creds, connected, azureHandles, oneDriveState, store, local, last,
                   registry, active, objConnected>>

\* ------------------------------------------------- uploading to OneDrive
\* A OneDrive connector with the rate-limit hook and one local file, just
\* below the simple-upload limit, exactly at it, or longer than one chunk.
InitUpload ==
    /\ kind = "onedrive"
    /\ hook = TRUE
    /\ limiter \in BOOLEAN
    /\ universe = "upload"
    /\ auth = "oauth"
    /\ ctor = CtorFor(auth)
    /\ creds = OneDriveCreds("value", "None")
    /\ connected = FALSE
    /\ blob_service_client = "None"
    /\ container_client = "None"
    /\ session = "None"
    /\ access_token \in {"None", "token"}
    /\ drive_id = "None"
    /\ store = {}
    /\ local \in {[l \in LocalPaths |-> IF l = "l1" THEN c ELSE "absent"] : c \in Contents}
    /\ last = NoCall
    /\ ManagerFresh

NextUpload ==
    \/ Return
    \/ OneDriveUploadFile
    \/ OneDriveConnect
    \/ OneDriveDisconnect

SpecUpload == InitUpload /\ [][NextUpload]_vars

\* ------------------------------------------------ the life of a connector
\* Connectors of both classes as written, constructed with any accepted
\* combination of credentials, used and destroyed (__del__ called
\* explicitly, the object still at hand).
InitLifecycle ==
    /\ kind \in {"azure", "onedrive"}
    /\ hook = FALSE
    /\ limiter = FALSE
    /\ universe = "few"
    /\ IF kind = "azure"
       THEN /\ ctor \in {Ctor(a, "constructed") : a \in {b \in AllCtorArgs : ~CtorRaises(b)}}
            /\ auth = ModeOf(ctor.args)
            /\ creds = AzureCreds(ctor.args)
            /\ access_token = "None"
       ELSE /\ ctor = CtorFor("oauth")
            /\ auth = "oauth"
            /\ creds \in {OneDriveCreds(s, r) : s \in ArgValues, r \in ArgValues}
            /\ access_token \in {"None", "token"}
    /\ connected = FALSE
    /\ blob_service_client = "None"
    /\ container_client = "None"
    /\ session = "None"
    /\ drive_id = "None"
    /\ store = {}
    /\ local = [l \in LocalPaths |-> IF l = "l1" THEN "c1" ELSE "absent"]
    /\ last = NoCall
    /\ ManagerFresh

NextLifecycle ==
    \/ Next
    \/ AzureDel
    \/ OneDriveDel

SpecLifecycle == InitLifecycle /\ [][NextLifecycle]_vars

\* ----------------------------------------------- constructing a connector
ConnectAfterInit ==
    /\ Constructed
    /\ AzureConnect
DisconnectAfterInit ==
    /\ Constructed
    /\ AzureDisconnect
ReturnAfterInit ==
    /\ ctor.result # "pending"
    /\ Return

\* A caller about to construct an AzureBlobConnector, with any combination
\* of the four credential arguments.
InitConstruct ==
    /\ kind = "azure"
    /\ hook = FALSE
    /\ limiter \in BOOLEAN
    /\ universe = "few"
    /\ auth = "unset"
    /\ ctor \in {Ctor(a, "pending") : a \in AllCtorArgs}
    /\ creds = NoCreds
    /\ connected = FALSE
    /\ blob_service_client = "None"
    /\ container_client = "None"
    /\ session = "None"
    /\ access_token = "None"
    /\ drive_id = "None"
    /\ store = {}
    /\ local = [l \in LocalPaths |-> IF l = "l1" THEN "c1" ELSE "absent"]
    /\ last = NoCall
    /\ ManagerFresh

NextConstruct ==
    \/ AzureInit
    \/ ConnectAfterInit
    \/ DisconnectAfterInit
    \/ ReturnAfterInit

SpecConstruct == InitConstruct /\ [][NextConstruct]_vars

\* A fresh manager; the connectors registered with it are the classes as
\* written (hook FALSE) or completed with _check_rate_limit (hook TRUE).
InitManager ==
    /\ InitCommon
    /\ kind = "azure"
    /\ ~limiter
    /\ auth = "connection_string"
    /\ hook \in BOOLEAN
    /\ universe = "few"
    /\ store = {}

NextManager ==
    \/ ManagerReturn
    \/ AddConnector
    \/ RemoveConnector
    \/ SetActive
    \/ ListConnectors
    \/ ConnectAll
    \/ DisconnectAll
    \/ ManagerUploadFile
    \/ ManagerDownloadFile
    \/ ManagerDeleteFile
    \/ ManagerListFiles
    \/ ManagerGetFileMetadata
    \/ SyncFileAcrossConnectors

SpecManager == InitManager /\ [][NextManager]_vars

\* ================================================================= claims
\* What the claims call a malformed remote path: not a string or empty, a
\* leading '/' or '\', a '/'-separated segment equal to '..', or NUL, CR, LF.
HasDotDotSegment(s) == \E i \in 1..Len(SplitSlash(s)) : SplitSlash(s)[i] = <<".", ".">>
BadRemotePath(p) ==
    \/ ~p.isstr
    \/ p.s = <<>>
    \/ p.s[1] \in {"/", "\\"}
    \/ HasDotDotSegment(p.s)
    \/ \E i \in 1..Len(p.s) : p.s[i] \in {NUL, CR, LF}
ViolationErrors == {"Remote path must be a non-empty string", "Absolute paths not allowed",
                    "Path traversal detected", "Invalid characters in path"}
NotConnectedErrors == {NotConnectedAzure, NotConnectedOneDrive}
PathOps == {"upload_file", "download_file", "delete_file", "get_file_metadata"}
NoNetCall(trace) == \A i \in 1..Len(trace) : ~IsNet(trace[i])
Returned == last.ret.type = "dict"
Failed == Returned /\ ~last.ret.success /\ last.ret.error # ""
ValidPath == ValidateRemotePath(last.path) = "ok"
AllHandlesNone == blob_service_client = "None" /\ container_client = "None" /\ session = "None"

\* C1 as stated: upload_file, download_file, delete_file and
\* get_file_metadata given a malformed remote path return success=false with
\* an error describing the violation and make no provider call, in any
\* connection state.
C1_RejectedDescribingViolation ==
    (last.op \in PathOps /\ BadRemotePath(last.path))
        => (Failed /\ last.ret.error \in ViolationErrors /\ NoNetCall(last.trace))

\* C1 (amended): upload_file, download_file, delete_file and
\* get_file_metadata given a malformed remote path return success=false with
\* an error and make no provider call; on a connected connector the error
\* describes the violation, on a connector that is not connected it is the
\* 'Not connected' error.
C1_MalformedPathRejected ==
    (last.op \in PathOps /\ BadRemotePath(last.path))
        => /\ Failed
           /\ NoNetCall(last.trace)
           /\ last.was_connected => last.ret.error \in ViolationErrors
           /\ ~last.was_connected => last.ret.error \in NotConnectedErrors

C1_Witness ==
    /\ last.op = "upload_file"
    /\ last.was_connected
    /\ last.path = Str(<<".", ".", "/">>)
    /\ last.ret.error = "Path traversal detected"

\* the checksum recorded with the remote file the last call named
Recorded == Lookup(store, RemoteKey(last.path)).checksum
VerifiedDownload ==
    /\ last.op = "download_file"
    /\ last.verify
    /\ ValidPath
    /\ last.existed
    /\ Recorded # "none"

C3_DeleteMissingSucceeds ==
    (last.op = "delete_file" /\ last.was_connected /\ ValidPath /\ ~last.existed /\ last.env_ok)
        => (Returned /\ last.ret.success /\ last.ret.warning # "" /\ last.ret.error = "")

\* C4: whenever connect() returns False, the connector is afterwards not
\* connected and holds no live session or client.
C4_FailedConnectLeavesNothing ==
    (last.op = "connect" /\ last.ret.type = "bool" /\ ~last.ret.success)
        => (~connected /\ AllHandlesNone)

\* C5: every call of a public connector operation returns a value; none
\* raises.
C5_NeverRaises == last.ret.type # "raise"

\* C6: with a rate limiter configured, every provider call a data operation
\* makes is immediately preceded by a consultation of the limiter.
DataOps == {"upload_file", "download_file", "delete_file", "list_files", "get_file_metadata"}
C6_LimiterBeforeEveryCall ==
    (limiter /\ last.op \in DataOps) =>
        \A i \in 1..Len(last.trace) :
            IsNet(last.trace[i]) => (i > 1 /\ last.trace[i - 1] = RateCheck)

\* C7: on a connected connector, with a valid remote path, the limiter
\* letting the calls through and the provider answering without fault:
\* upload_file of an existing file succeeds and returns the SHA-256 of the
\* file, which the provider then holds; download_file with
\* verify_checksum=true of a remote file succeeds, leaves the stored bytes at
\* the local destination, and the checksum that goes with the download (the
\* recorded one, or the one returned) is the SHA-256 of those bytes.  Upload
\* followed by download is then a round trip with equal bytes and checksums.
C7_RoundTrip ==
    /\ (last.op = "upload_file" /\ last.was_connected /\ ValidPath /\ last.env_ok
           /\ local[last.file] # "absent")
        => /\ Returned /\ last.ret.success
           /\ last.ret.checksum = Sha256(local[last.file])
           /\ Exists(store, RemoteKey(last.path))
           /\ Lookup(store, RemoteKey(last.path)).content = local[last.file]
    /\ (last.op = "download_file" /\ last.was_connected /\ ValidPath /\ last.env_ok
           /\ last.verify /\ last.existed)
        => /\ Returned /\ last.ret.success
           /\ local[last.file] = Lookup(store, RemoteKey(last.path)).content
           /\ Recorded # "none" => Recorded = Sha256(local[last.file])
           /\ last.ret.checksum # "absent" => last.ret.checksum = Sha256(local[last.file])

\* C8: a successful download_file reports checksum_verified=true only if
\* the SHA-256 of the downloaded file was compared with the checksum
\* recorded for the remote file and equalled it; with no recorded checksum,
\* or verify_checksum=false, checksum_verified is false.
C8_VerifiedOnlyIfCompared ==
    (last.op = "download_file" /\ Returned /\ last.ret.success)
        => /\ last.ret.checksum_verified = "True" =>
                 (last.compared /\ Recorded # "none" /\ Sha256(local[last.file]) = Recorded)
           /\ (~last.verify \/ Recorded = "none") => last.ret.checksum_verified = "False"

\* C9: generate_sas_url, copy_blob, create_sharing_link, copy_file and
\* list_files with a non-empty prefix return a failure result without any
\* provider call when a path begins with '/' or has a '..' segment.
EscapingPath(p) == p.isstr /\ p.s # <<>> /\ (p.s[1] = "/" \/ HasDotDotSegment(p.s))
OtherPathOps == {"generate_sas_url", "copy_blob", "create_sharing_link", "copy_file", "list_files"}
C9_OtherOperationsRejectPath ==
    (last.op \in OtherPathOps /\ (EscapingPath(last.path) \/ EscapingPath(last.path2)))
        => /\ \/ Returned /\ ~last.ret.success
              \/ last.ret.type = "list" /\ last.ret.items = <<>>
           /\ NoNetCall(last.trace)

\* C10: disconnect() returns True in any state and leaves the connector not
\* connected with every live session/client handle None; a connect() that
\* returns True, before or after any number of disconnects, leaves the
\* connector connected with its handle set.
HandleSet == IF kind = "azure" THEN container_client # "None" /\ blob_service_client # "None"
             ELSE session # "None"
C10_DisconnectClears ==
    /\ last.op = "disconnect" =>
          (last.ret.type = "bool" /\ last.ret.success /\ ~connected /\ AllHandlesNone)
    /\ (last.op = "connect" /\ last.ret.success) => (connected /\ HandleSet)

C10_Witness ==
    /\ last.op = "disconnect"
    /\ last.was_connected
    /\ ~connected
    /\ AllHandlesNone
\* C11: on a connector that is not connected (fresh, after a failed connect,
\* after disconnect) upload_file, download_file, delete_file and
\* get_file_metadata return success=false with the 'Not connected' error and
\* list_files returns the empty list; the call consults no limiter, makes no
\* provider call and leaves the local files, the provider's store and every
\* field of the connector as they were.
C11_NotConnectedStep ==
    (~connected /\ last'.op \in DataOps) =>
        /\ last'.op \in PathOps =>
              (last'.ret.type = "dict" /\ ~last'.ret.success
                 /\ last'.ret.error \in NotConnectedErrors)
        /\ last'.op = "list_files" => (last'.ret.type = "list" /\ last'.ret.items = <<>>)
        /\ last'.trace = <<>>
        /\ UNCHANGED <<config, creds, connected, azureHandles, oneDriveState, store, local>>
C11_NotConnected == [][C11_NotConnectedStep]_vars

\* download_file refused on an Azure connector whose connect() failed
C11_Witness ==
    /\ last.op = "download_file"
    /\ ~last.was_connected
    /\ container_client # "None"
    /\ ~connected
    /\ last.ret.error = NotConnectedAzure
    /\ local["l0"] = "absent"
\* ---------------------------------------------------- ConnectorManager claims
\* the number of invocations of op on the connector registered as n
Invocations(n, op) ==
    Cardinality({i \in 1..Len(mlast.calls) : mlast.calls[i].name = n /\ mlast.calls[i].op = op})
\* the names under which the connector of name n is registered
Aliases(n) == {m \in Registered : registry[m] = registry[n]}
BulkMethod(op) == IF op = "connect_all" THEN "connect" ELSE "disconnect"
\* one entry per registered name, one attempt per registered connector, each
\* entry the connector's own outcome
BulkIndependent ==
    mlast.op \in {"connect_all", "disconnect_all"} =>
        /\ \A n \in Names : (mlast.results[n] # "absent") <=> (n \in Registered)
        /\ Len(mlast.calls) = Cardinality(Registered)
        /\ \A n \in Registered :
              /\ Invocations(n, BulkMethod(mlast.op)) = 1
              /\ (mlast.results[n] = "True") <=> (mlast.answers[n] = "ok")

\* C12: connect_all() and disconnect_all() attempt the operation on every
\* registered connector and return a map with exactly one entry per
\* registered name, each entry that connector's own outcome, whatever the
\* other connectors return or raise; after connect_all the is_connected() of
\* each connector (registered under one name) equals its entry.
C12_BulkOutcomePerConnector ==
    /\ BulkIndependent
    /\ mlast.op = "connect_all" =>
          \A n \in Registered :
              Aliases(n) = {n} => (objConnected[registry[n]] <=> (mlast.results[n] = "True"))

\* ---- sync_file_across_connectors
SyncDone == mlast.op = "sync_file_across_connectors"
SyncTargets == {n \in Names : InList(n, mlast.targets)}

\* C13: with a registered source, sync_file_across_connectors never raises
\* and returns one entry per name in targets and no other; every registered
\* target gets exactly one upload attempt whatever the other targets did, an
\* unregistered target gets none and a failed entry, and the overall success
\* is true only if every target's entry succeeded.
C13_SyncPerTarget ==
    (SyncDone /\ mlast.name \in Registered) =>
        /\ mlast.ret.type = "dict"
        /\ \A n \in Names : (mlast.results[n] # "absent") <=> (n \in SyncTargets)
        /\ Len(mlast.calls) = 1 + Cardinality(SyncTargets \cap Registered)
        /\ mlast.calls[1] = Invocation(mlast.name, registry[mlast.name], "download_file")
        /\ \A n \in SyncTargets :
              IF n \in Registered
              THEN /\ Invocations(n, "upload_file") = 1
                   /\ (mlast.results[n] = "True") <=> (mlast.answers[n] = "success")
              ELSE /\ Invocations(n, "upload_file") = 0
                   /\ mlast.results[n] = "False"
        /\ mlast.ret.success => \A n \in SyncTargets : mlast.results[n] = "True"
\* an unknown first target, then a registered one that is still uploaded to
C13_Witness ==
    /\ SyncDone
    /\ mlast.name \in Registered
    /\ Len(mlast.targets) = 2
    /\ mlast.targets[1] \notin Registered
    /\ mlast.targets[2] \in Registered
    /\ mlast.results[mlast.targets[2]] = "True"
    /\ ~mlast.ret.success

\* C14: with an unregistered source, sync_file_across_connectors does not
\* raise, uploads to no target and returns success false with an error
\* saying that the source connector was not found.
C14_SyncUnknownSource ==
    (SyncDone /\ mlast.name \notin Registered) =>
        /\ mlast.ret = MRet("dict", FALSE, SourceNotFound)
        /\ mlast.calls = <<>>
C14_Witness ==
    /\ SyncDone
    /\ mlast.name \notin Registered
    /\ \E n \in SyncTargets : n \in Registered /\ objConnected[registry[n]]
    /\ mlast.ret.error = SourceNotFound

\* ---- delegation
DelegatedOps == {"upload_file", "download_file", "delete_file", "list_files", "get_file_metadata"}
\* the connector the caller asked for: the one named, else the active one
Wanted == IF mlast.name # NoName THEN mlast.name ELSE mlast.was_active

\* C15: upload_file, download_file, delete_file, list_files and
\* get_file_metadata of the manager invoke the operation on exactly one
\* connector, the named one, else the active one, and on no other; with an
\* empty registry they fail with 'No connector available' (list_files: the
\* empty list) without invoking any connector.
C15_DelegatesToOne ==
    mlast.op \in DelegatedOps =>
        /\ Wanted \in Registered =>
              mlast.calls = <<Invocation(Wanted, registry[Wanted], mlast.op)>>
        /\ Registered = {} =>
              /\ mlast.calls = <<>>
              /\ mlast.ret = IF mlast.op = "list_files" THEN MRet("list", FALSE, "")
                             ELSE MRet("dict", FALSE, NoConnector)
\* a named connector that is not the active one receives the call
C15_Witness ==
    /\ mlast.op = "upload_file"
    /\ mlast.name \in Registered
    /\ active \in Registered
    /\ active # mlast.name
    /\ registry[active] # registry[mlast.name]
    /\ Len(mlast.calls) = 1
    /\ mlast.calls[1].obj = registry[mlast.name]

\* ---- registry
WasRegistered == {n \in Names : mlast.was_registry[n] # "None"}

\* C16: add_connector(name, c) returns True and leaves the registry mapping
\* name to c and every other name as before; the name becomes active if the
\* registry was empty, otherwise the active name is unchanged; adding under
\* a registered name replaces its connector without changing the number of
\* names.
C16_AddRegisters ==
    mlast.op = "add_connector" =>
        /\ mlast.ret = MRet("bool", TRUE, "")
        /\ registry = [mlast.was_registry EXCEPT ![mlast.name] = mlast.obj]
        /\ active = IF WasRegistered = {} THEN mlast.name ELSE mlast.was_active
        /\ mlast.name \in WasRegistered =>
              Cardinality(Registered) = Cardinality(WasRegistered)
\* a registered, non-active name given another connector
C16_Witness ==
    /\ mlast.op = "add_connector"
    /\ mlast.name \in WasRegistered
    /\ mlast.was_registry[mlast.name] # mlast.obj
    /\ registry[mlast.name] = mlast.obj
    /\ active # mlast.name
    /\ Cardinality(Registered) = 2

\* C17: remove_connector(name) on a registered name returns True and removes
\* that entry only; if it was the active one the active name becomes a name
\* still registered, or none when the registry is now empty, and otherwise
\* stays; on an unregistered name it returns False and changes nothing.
C17_RemoveUnregisters ==
    mlast.op = "remove_connector" =>
        IF mlast.name \in WasRegistered
        THEN /\ mlast.ret = MRet("bool", TRUE, "")
             /\ registry = [mlast.was_registry EXCEPT ![mlast.name] = "None"]
             /\ IF mlast.was_active # mlast.name THEN active = mlast.was_active
                ELSE IF Registered = {} THEN active = NoName
                ELSE active \in Registered
        ELSE /\ mlast.ret = MRet("bool", FALSE, "")
             /\ registry = mlast.was_registry
             /\ active = mlast.was_active
\* the active connector removed while another stays registered
C17_Witness ==
    /\ mlast.op = "remove_connector"
    /\ mlast.was_active = mlast.name
    /\ mlast.name \in WasRegistered
    /\ mlast.name \notin Registered
    /\ active \in Registered

\* ---- construction
\* at least one complete auth mode among the arguments
CompleteMode(a) ==
    \/ Truthy(a.connection_string)
    \/ Truthy(a.account_name) /\ Truthy(a.account_key)
    \/ Truthy(a.account_name) /\ Truthy(a.sas_token)

\* C18: constructing an AzureBlobConnector raises ValueError, with no
\* network attempt and no client created, exactly when the arguments hold no
\* complete auth mode; whenever they hold one (a connection string, or an
\* account name with a key or a SAS token) construction succeeds.
C18_ConstructionValidatesAuth ==
    last.op = "__init__" =>
        /\ (last.ret.type = "raise") <=> ~CompleteMode(ctor.args)
        /\ Constructed <=> CompleteMode(ctor.args)
        /\ last.ret.type = "raise" =>
              /\ last.ret.error = "ValueError"
              /\ last.trace = <<>>
              /\ AllHandlesNone

\* ---- OneDrive upload
\* an upload_file that gets as far as sending the file
UploadTransfers ==
    /\ last.op = "upload_file"
    /\ kind = "onedrive"
    /\ last.was_connected
    /\ ValidPath
    /\ local[last.file] # "absent"
    /\ last.ret.error # RateLimited
Requests == SelectSeq(last.trace, IsNet)
UploadedSize == FileSize(local[last.file])
SimpleUsed == Requests = <<"PUT content">>
ResumableUsed ==
    /\ Requests # <<>>
    /\ Requests[1] = "POST createUploadSession"
    /\ \A i \in 2..Len(Requests) : Requests[i] = "PUT chunk"

\* C19: upload_file of a connected OneDriveConnector uses the simple upload
\* (exactly one PUT of the whole file, no upload session) if and only if the
\* file is smaller than 4194304 bytes, and the resumable upload (one session
\* creation, then chunk PUTs) if and only if it has 4194304 bytes or more.
C19_UploadBranchesOnSize ==
    UploadTransfers =>
        /\ SimpleUsed <=> (UploadedSize < 4194304)
        /\ ResumableUsed <=> (UploadedSize >= 4194304)

\* the chunks of a file of the uploaded size
ChunksOf(size) == (size + 10485760 - 1) \div 10485760
ResumableUpload == UploadTransfers /\ UploadedSize >= 4194304

\* C20: in a resumable upload, a refused session creation means no chunk is
\* sent and success is false; a refused chunk means success is false and no
\* later chunk is sent; success is true only after the session was created
\* and every chunk of the file, in order, was accepted.
C20_ChunkFailureAborts ==
    ResumableUpload =>
        /\ ResumableUsed
        /\ last.fault.fail = 1 => (Requests = <<"POST createUploadSession">> /\ ~last.ret.success)
        /\ last.fault.fail \in 2..(1 + ChunksOf(UploadedSize)) =>
              (Len(Requests) = last.fault.fail /\ ~last.ret.success)
        /\ last.ret.success =>
              /\ Len(Requests) = 1 + ChunksOf(UploadedSize)
              /\ last.fault.fail \notin 1..Len(Requests)
\* the first of two chunks is refused: the second is never sent
C20_Witness ==
    /\ ResumableUpload
    /\ ChunksOf(UploadedSize) = 2
    /\ last.fault.fail = 2
    /\ Requests = <<"POST createUploadSession", "PUT chunk">>
    /\ Failed

\* ---- the active name
FlaggedActive == {n \in Names : mlast.results[n] = "True"}

\* C26: whatever add_connector, remove_connector and set_active calls were
\* made, active_connector_name is None exactly when the registry is empty
\* and is otherwise a registered name; set_active with an unregistered name
\* returns False and leaves the active name; list_connectors flags exactly
\* one entry as active when the registry is not empty.
C26_ActiveIsRegistered ==
    /\ (active = NoName) <=> (Registered = {})
    /\ active # NoName => active \in Registered
    /\ (mlast.op = "set_active" /\ mlast.name \notin WasRegistered) =>
          (mlast.ret = MRet("bool", FALSE, "") /\ active = mlast.was_active)
    /\ (mlast.op = "list_connectors" /\ Registered # {}) =>
          (FlaggedActive = {active} /\ \A n \in Registered : mlast.results[n] # "absent")
\* set_active refused for an unknown name while another name is active
C26_Witness ==
    /\ mlast.op = "set_active"
    /\ mlast.name \notin Registered
    /\ ~mlast.ret.success
    /\ active \in Registered
    /\ Cardinality(Registered) = 2

\* ---- destruction
Destroyed == last.op = "__del__"
\* the fields of the class that hold secrets
SecretFields ==
    IF kind = "azure" THEN {creds.connection_string, creds.account_key, creds.sas_token}
    ELSE {creds.client_secret, access_token, creds.refresh_token}
HandlesGone ==
    IF kind = "azure" THEN blob_service_client = "None" /\ container_client = "None"
    ELSE session = "None" /\ (last.had_session => last.closed)

\* C21 as stated: after __del__ of a connector in any state every credential
\* field is None (OneDrive: client_secret, access_token, refresh_token, the
\* session closed and None; Azure: connection_string, account_key,
\* sas_token, both client handles None).
C21_CredentialsNone ==
    Destroyed => (SecretFields = {"None"} /\ HandlesGone)

\* C21: after __del__ of a connector in any state no credential field holds
\* a secret (each is None, or the empty string it already was) and the live
\* handles are gone: the OneDrive session closed and None, both Azure client
\* handles None.
C21_CredentialsCleared ==
    Destroyed => ((\A v \in SecretFields : ~Truthy(v)) /\ HandlesGone)
\* a OneDrive connector destroyed while it held a session and tokens that
\* connect had obtained
C21_Witness ==
    /\ Destroyed
    /\ kind = "onedrive"
    /\ last.had_session
    /\ last.closed
    /\ last.was_connected
    /\ drive_id = "drive"
    /\ SecretFields = {"None"}

\* ---- configuration
ConfigOps == {"connect", "disconnect", "upload_file", "download_file", "delete_file",
              "list_files", "get_file_metadata"}
\* the auth parameters and the target identifier of the connector
Configuration == <<creds, access_token, drive_id>>
C22_ConfigurationKeptStep ==
    last'.op \in ConfigOps => Configuration' = Configuration

\* C22: between construction and destruction no operation (connect,
\* disconnect, upload, download, delete, list, metadata) changes an auth
\* parameter or the target identifier (OneDrive: client_id, client_secret,
\* tenant_id, access_token, refresh_token, drive_id; Azure: container_name,
\* connection_string, account_name, account_key, sas_token).
C22_ConfigurationImmutable == [][C22_ConfigurationKeptStep]_vars

\* ---- sessions
\* the sessions known to be open once the call is over: the one the object
\* holds, and the one it held before the call if the call replaced it
\* without closing it
OpenSessions ==
    (IF session # "None" THEN 1 ELSE 0)
    + (IF last.op = "connect" /\ last.had_session /\ ~last.closed THEN 1 ELSE 0)

\* C23: a OneDrive connector never has more than one open session: whatever
\* connect() calls came before, successful or failed, with or without a
\* disconnect() in between, at most one session created by connect is left
\* un-closed, and after disconnect() none is open.
C23_OneOpenSession ==
    kind = "onedrive" =>
        /\ OpenSessions <= 1
        /\ last.op = "disconnect" => (session = "None" /\ (last.had_session => last.closed))

\* C27: in every reachable state, after any connects, failed connects,
\* disconnects, data operations and explicit __del__ calls, is_connected()
\* true implies that the handle the data operations dereference (Azure
\* container_client, OneDrive _session) is not None.
C27_ConnectedHasHandle ==
    connected => IF kind = "azure" THEN container_client # "None" ELSE session # "None"

\* ---- listing
\* a listing of a connected OneDrive connector that the limiter admits and
\* whose every request the provider answers with 200
ListingAnswered ==
    /\ last.op = "list_files"
    /\ kind = "onedrive"
    /\ last.was_connected
    /\ last.path.isstr
    /\ last.env_ok
\* the entries of the listed folder, in the provider's order
Listed == SetToSeq(Children(ItemKey(last.path)))
\* the pages the provider cuts them into: the last one carries no nextLink
PagesOf(n) == IF n = 0 THEN 1 ELSE (n + PageSize - 1) \div PageSize

\* C24: list_files of a connected OneDrive connector follows @odata.nextLink
\* from page to page until none is left and returns the concatenation of
\* the pages in order, each entry once: a listing of n pages takes n GET
\* requests.
C24_ListFollowsPages ==
    ListingAnswered =>
        /\ last.ret.type = "list"
        /\ last.ret.items = Listed
        /\ Len(Requests) = PagesOf(Len(Listed))
        /\ \A i \in 1..Len(Requests) : Requests[i] = "GET children"

\* ---- signed URLs
\* generate_sas_url of a connected Azure connector with a valid path
SasCall ==
    /\ last.op = "generate_sas_url"
    /\ kind = "azure"
    /\ last.was_connected
    /\ ValidPath
\* an account key was given, directly or as the AccountKey of the connection string
KeyAvailable ==
    Truthy(creds.account_key) \/ Truthy(CsPart(creds.connection_string, "AccountKey"))
\* an account name was given, directly or as the AccountName of the connection string
NameAvailable ==
    Truthy(creds.account_name) \/ Truthy(CsPart(creds.connection_string, "AccountName"))

\* C25: generate_sas_url of a connected Azure connector with a valid path
\* succeeds whenever an account key is available (as account_key or in the
\* connection string, the account name coming from account_name or from the
\* connection string), and returns success=false, hence no URL, when no
\* account key is available.
C25_SasNeedsAccountKey ==
    SasCall =>
        /\ (KeyAvailable /\ NameAvailable) => last.ret.success
        /\ ~KeyAvailable => ~last.ret.success

\* ---- chunk ranges
\* the chunk PUTs of the upload and the ranges they carried
ChunkPuts == SelectSeq(Requests, LAMBDA e : e = "PUT chunk")
Ranges == last.ranges
\* a resumable upload whose chunks were all accepted: it returned success
AllChunksAccepted == ResumableUpload /\ last.ret.type = "dict" /\ last.ret.success

\* C28: in a OneDrive resumable upload of a file of S bytes whose chunks are
\* all accepted, the chunk requests carry Content-Range a_i..b_i of S with
\* a_0 = 0, a_(i+1) = b_i + 1 and the last b = S - 1; each chunk's length
\* b_i - a_i + 1 is its Content-Length, at most 10485760 and exactly
\* 10485760 for every chunk but the last.
C28_RangesPartitionFile ==
    AllChunksAccepted =>
        /\ Len(Ranges) = Len(ChunkPuts)
        /\ Len(Ranges) = ChunksOf(UploadedSize)
        /\ Ranges[1].a = 0
        /\ Ranges[Len(Ranges)].b = UploadedSize - 1
        /\ \A i \in 1..Len(Ranges) :
              /\ Ranges[i].total = UploadedSize
              /\ Ranges[i].b - Ranges[i].a + 1 = Ranges[i].content_length
              /\ Ranges[i].content_length <= 10 * 1024 * 1024
              /\ i < Len(Ranges) => Ranges[i].content_length = 10 * 1024 * 1024
              /\ i < Len(Ranges) => Ranges[i + 1].a = Ranges[i].b + 1
\* a file of two chunks, both accepted
C28_Witness ==
    /\ AllChunksAccepted
    /\ Len(Ranges) = 2
    /\ Ranges[2].a = 10485760
    /\ Ranges[2].content_length = 1

\* C29: the chunk loop of a resumable upload terminates: for a file measured
\* as S bytes it issues at most ceil(S / 10485760) chunk PUTs and returns a
\* result, whatever the provider answers and even if fewer than S bytes can
\* be read from the file.
C29_ChunkLoopTerminates ==
    ResumableUpload =>
        /\ last.ret.type # "hang"
        /\ Len(ChunkPuts) <= ChunksOf(UploadedSize)
\* C29 for files that keep their size: the claim without its last clause
C29_UnchangedFileTerminates ==
    (ResumableUpload /\ last.readable = UploadedSize) =>
        /\ last.ret.type # "hang"
        /\ Len(ChunkPuts) <= ChunksOf(UploadedSize)

\* ---- frame of the data operations
\* a step that is one call of a data operation
DataOpStep == last.op = "none" /\ last'.op \in DataOps
\* connection state, live handles, credentials and target identifier
ConnectorState ==
    <<connected, blob_service_client, container_client, session, access_token, drive_id, creds>>
\* the data operations leave the connector as it was
C30_ConnectorKeptStep == DataOpStep => UNCHANGED ConnectorState
C30_ConnectorKept == [][C30_ConnectorKeptStep]_vars

\* C30: upload_file, download_file, delete_file, list_files and
\* get_file_metadata of both connectors, whether they succeed or fail,
\* leave connection state, live handle, credentials and target identifier
\* unchanged, and upload_file leaves the caller's metadata mapping unchanged.
C30_DataOpsFrameStep ==
    DataOpStep =>
        /\ UNCHANGED ConnectorState
        /\ last'.metadata_after = last'.metadata
C30_DataOpsFrame == [][C30_DataOpsFrameStep]_vars
====
